---- MODULE Spec2Model ----
(***************************************************************************)
(* Todo management service: the persisted todo table, TodoRepository,      *)
(* TodoService, the HTTP endpoints with their error envelope, the AI       *)
(* assistant (AIService with its response cache) and the tool adapter      *)
(* (MCPService), as a state machine.  Requests that run at the same time   *)
(* are split where they give up control: at the await of the provider      *)
(* call, and between the select and the commit of a database session.      *)
(*                                                                         *)
(* Python's None is written per column type: NoneStr for optional strings  *)
(* and enum members, NoneDate for optional timestamps, NoneTags for an     *)
(* optional tag list.  Enum members are written by their value.            *)
(***************************************************************************)
EXTENDS Integers, Sequences, FiniteSets, TLC

VARIABLES store, now, result, cache, requests

vars == <<store, now, result, cache, requests>>

(* ---------------------------------------------------------------- bounds *)

MaxTodos == 2

MaxTime == 1

(* ------------------------------------------------------------ data model *)

NoneStr == "NULL"

NoneDate == -1

NoneTags == <<"NULL">>

Priority == {"low", "medium", "high", "urgent"}

Status == {"pending", "in_progress", "completed", "cancelled"}

TodoFields ==
    {"id", "title", "description", "due_date", "priority", "status", "tags",
     "created_at", "modified_at", "is_deleted"}

TodoResponseFields ==
    {"id", "title", "description", "due_date", "priority", "status", "tags",
     "created_at", "modified_at"}

TodoUpdateFields ==
    {"title", "description", "due_date", "priority", "status", "tags"}

NoneOf(f) ==
    CASE f = "due_date" -> NoneDate
      [] f = "tags" -> NoneTags
      [] OTHER -> NoneStr

(* The identifiers a caller may name: every row the table can hold and one *)
(* identifier that is never assigned.                                      *)
Ids == 1..(MaxTodos + 1)

(* ------------------------------------------------------------ repository *)

(* Python's `x or d`. *)
OrElse(x, none, d) == IF x = none THEN d ELSE x

(* Indexes of the rows select(Todo).where(Todo.id == todo_id,              *)
(* Todo.is_deleted == False) matches.                                      *)
LiveRows(st, todo_id) ==
    {i \in 1..Len(st) : st[i].id = todo_id /\ st[i].is_deleted = FALSE}

Min(S) == CHOOSE x \in S : \A y \in S : x <= y

(* get_by_id with the is_deleted condition left out of the where clause. *)
get_by_id_ignores_deleted(st, todo_id) ==
    IF {i \in 1..Len(st) : st[i].id = todo_id} = {}
    THEN 0
    ELSE Min({i \in 1..Len(st) : st[i].id = todo_id})

(* get_by_id: index of the first matching row, 0 for None. *)
get_by_id(st, todo_id) ==
    IF LiveRows(st, todo_id) = {} THEN 0 ELSE Min(LiveRows(st, todo_id))

(* The loop of TodoRepository.update without its guard on id and          *)
(* created_at.                                                             *)
AssignedKeys_unguarded(update_data) ==
    {k \in DOMAIN update_data : k \in TodoFields}

(* The keys of update_data the loop of TodoRepository.update assigns. *)
AssignedKeys(update_data) ==
    {k \in DOMAIN update_data : k \in TodoFields /\ k \notin {"id", "created_at"}}

(* TodoRepository.update setting the timestamp before the setattr loop,   *)
(* so that a supplied modified_at wins.                                    *)
update_row_timestamp_first(todo, update_data, t) ==
    [f \in TodoFields |->
        IF f \in AssignedKeys(update_data) THEN update_data[f]
        ELSE IF f = "modified_at" THEN t
        ELSE todo[f]]

(* TodoRepository.update as a full replacement: an updatable field the map *)
(* does not name is reset to None.                                         *)
update_row_replaces(todo, update_data, t) ==
    [f \in TodoFields |->
        IF f = "modified_at" THEN t
        ELSE IF f \in AssignedKeys(update_data) THEN update_data[f]
        ELSE IF f \in TodoUpdateFields THEN NoneOf(f)
        ELSE todo[f]]

(* TodoRepository.update on the row found: the setattr loop, then the      *)
(* modification timestamp.                                                 *)
update_row(todo, update_data, t) ==
    [f \in TodoFields |->
        IF f = "modified_at" THEN t
        ELSE IF f \in AssignedKeys(update_data) THEN update_data[f]
        ELSE todo[f]]

(* TodoRepository.delete on the row found. *)
delete_row(todo, t) ==
    [todo EXCEPT !.is_deleted = TRUE, !.modified_at = t]

(* TodoRepository.create: the store assigns the identifier on commit. *)
create(st, todo) ==
    Append(st, [todo EXCEPT !.id = Len(st) + 1])

(* TodoService._to_response. *)
to_response(todo) == [f \in TodoResponseFields |-> todo[f]]

(* ------------------------------------------------------- list and count *)

(* filters=None and sort=None. *)
NoFilters == [none |-> TRUE]

NoSort == [none |-> TRUE]

IsNone(x) == "none" \in DOMAIN x

(* Todo.tags.contains(tag): the tag occurs in the stored tags.  A match of  *)
(* the tag text inside a longer stored tag is not modelled.                *)
contains(tags, tag) == \E k \in 1..Len(tags) : tags[k] = tag

(* The shared where clauses with the status condition left out. *)
MatchesStatusPriority_no_status(todo, filters) ==
    /\ todo.is_deleted = FALSE
    /\ \/ IsNone(filters)
       \/ filters.priority # NoneStr => todo.priority = filters.priority

(* The where clauses list_all and count_total share: not deleted, status   *)
(* equals, priority equals.                                                *)
MatchesStatusPriority(todo, filters) ==
    /\ todo.is_deleted = FALSE
    /\ \/ IsNone(filters)
       \/ /\ filters.status # NoneStr => todo.status = filters.status
          /\ filters.priority # NoneStr => todo.priority = filters.priority

(* The where clauses list_all adds for filters.tags: one per tag. *)
MatchesTags(todo, filters) ==
    \/ IsNone(filters)
    \/ filters.tags = NoneTags
    \/ \A k \in 1..Len(filters.tags) : contains(todo.tags, filters.tags[k])

(* Indexes of the rows the statement of list_all selects. *)
Selected(st, filters) ==
    {i \in 1..Len(st) : MatchesStatusPriority(st[i], filters) /\ MatchesTags(st[i], filters)}

(* getattr(Todo, sort.sort_by, Todo.created_at). *)
sort_column(sort_by) == IF sort_by \in TodoFields THEN sort_by ELSE "created_at"

(* The database backends the statement runs on: PostgreSQL in deployment   *)
(* (Settings.database_url) and SQLite in the test suites.                  *)
Dialects == {"postgresql", "sqlite"}

(* The token the Enum column of Todo.priority stores for a member: the     *)
(* member's name.                                                          *)
enum_name(v) ==
    CASE v = "low" -> "LOW"
      [] v = "medium" -> "MEDIUM"
      [] v = "high" -> "HIGH"
      [] v = "urgent" -> "URGENT"

(* The members of Priority in the order the class declares them, which is  *)
(* the order of the labels of the native enum type PostgreSQL creates.     *)
PriorityDeclared == <<"low", "medium", "high", "urgent">>

(* The stored priority tokens in the order text comparison puts them. *)
PriorityTokensAsText == <<"HIGH", "LOW", "MEDIUM", "URGENT">>

IndexOf(seq, v) == CHOOSE k \in 1..Len(seq) : seq[k] = v

(* The position of the value v of column col in the order ORDER BY col     *)
(* uses: a native enum compares by label position, SQLite compares the     *)
(* stored tokens as text; identifiers and timestamps compare as numbers.   *)
(* Other text columns are not sorted on here.                              *)
sort_key(dialect, col, v) ==
    IF col = "priority"
    THEN IF dialect = "postgresql"
         THEN IndexOf(PriorityDeclared, v)
         ELSE IndexOf(PriorityTokensAsText, enum_name(v))
    ELSE v

(* Whether the sequence p of row indexes satisfies the ORDER BY of sort on *)
(* one of the backends; without a sort any order is allowed.               *)
Ordered(st, p, sort) ==
    \/ IsNone(sort)
    \/ \E dialect \in Dialects :
          \A a, b \in DOMAIN p :
             a < b =>
               LET col == sort_column(sort.sort_by)
                   ka == sort_key(dialect, col, st[p[a]][col])
                   kb == sort_key(dialect, col, st[p[b]][col])
               IN IF sort.sort_order = "asc" THEN ka <= kb ELSE ka >= kb

Orderings(S) ==
    {p \in [1..Cardinality(S) -> S] : \A a, b \in 1..Cardinality(S) : a # b => p[a] # p[b]}

(* list_all: every result the statement can produce, as sequences of rows. *)
(* Rows the ORDER BY does not tell apart come in any order.                *)
list_all(st, filters, sort) ==
    {[k \in DOMAIN p |-> st[p[k]]] :
        p \in {q \in Orderings(Selected(st, filters)) : Ordered(st, q, sort)}}

(* count_total with the tags clauses of list_all added to its statement. *)
count_total_with_tags(st, filters) ==
    Cardinality(Selected(st, filters))

(* count_total: the rows its statement counts; filters.tags is not read. *)
count_total(st, filters) ==
    Cardinality({i \in 1..Len(st) : MatchesStatusPriority(st[i], filters)})

(* --------------------------------------------------------------- schemas *)

(* TodoCreate built from raw: the declared fields with their defaults; a   *)
(* key that is not a field of the schema (such as status) is ignored.      *)
TodoCreate(raw) ==
    [title |-> raw.title,
     description |-> IF "description" \in DOMAIN raw THEN raw.description ELSE NoneStr,
     due_date |-> IF "due_date" \in DOMAIN raw THEN raw.due_date ELSE NoneDate,
     priority |-> IF "priority" \in DOMAIN raw THEN raw.priority ELSE "medium",
     tags |-> IF "tags" \in DOMAIN raw THEN raw.tags ELSE <<>>]

(* TodoUpdate built from raw: every field optional, None when not given. *)
TodoUpdate(raw) ==
    [f \in TodoUpdateFields |-> IF f \in DOMAIN raw THEN raw[f] ELSE NoneOf(f)]

(* update_data.model_dump() without exclude_none: every field, None too. *)
model_dump_keeps_none(update_data) == update_data

(* update_data.model_dump(exclude_none=True). *)
model_dump_exclude_none(update_data) ==
    [f \in {g \in TodoUpdateFields : update_data[g] # NoneOf(g)} |-> update_data[f]]

(* The entity built with the defaults in place of the priority and the     *)
(* tags of the input.                                                      *)
NewTodo_defaults_only(todo_data, t) ==
    [id |-> 0,
     title |-> todo_data.title,
     description |-> todo_data.description,
     due_date |-> todo_data.due_date,
     priority |-> "medium",
     status |-> "pending",
     tags |-> <<>>,
     created_at |-> t,
     modified_at |-> t,
     is_deleted |-> FALSE]

(* The entity TodoService.create_todo builds. *)
NewTodo(todo_data, t) ==
    [id |-> 0,
     title |-> todo_data.title,
     description |-> todo_data.description,
     due_date |-> todo_data.due_date,
     priority |-> OrElse(todo_data.priority, NoneStr, "medium"),
     status |-> "pending",
     tags |-> IF todo_data.tags = NoneTags THEN <<>> ELSE todo_data.tags,
     created_at |-> t,
     modified_at |-> t,
     is_deleted |-> FALSE]

(* ----------------------------------------------------------------- state *)

NoResult == [op |-> "none", id |-> 0, raised |-> "none"]

(* The clients whose requests are in progress at the same time, and the    *)
(* state of a client that has no request in progress.                      *)
Clients == {1, 2}

Idle == [pc |-> "idle"]

Init ==
    /\ store = <<>>
    /\ now = 0
    /\ result = NoResult
    /\ cache = << >>
    /\ requests = [p \in Clients |-> Idle]

(* datetime.utcnow() advances between calls. *)
Tick ==
    /\ now < MaxTime
    /\ now' = now + 1
    /\ UNCHANGED <<store, result, cache, requests>>

(* --------------------------------------------------------------- service *)

(* TodoService.create_todo taking the status from the caller's input. *)
create_todo_trusts_status(raw) ==
    /\ Len(store) < MaxTodos
    /\ store' = create(store,
                       [NewTodo(TodoCreate(raw), now) EXCEPT
                          !.status = IF "status" \in DOMAIN raw
                                     THEN raw.status ELSE "pending"])
    /\ result' = [op |-> "create_todo", id |-> Len(store) + 1, raised |-> "none",
                  raw |-> raw, val |-> to_response(store'[Len(store')])]
    /\ UNCHANGED <<now, cache, requests>>

(* TodoService.create_todo(TodoCreate built from raw). *)
create_todo(raw) ==
    /\ Len(store) < MaxTodos
    /\ store' = create(store, NewTodo(TodoCreate(raw), now))
    /\ result' = [op |-> "create_todo", id |-> Len(store) + 1, raised |-> "none",
                  raw |-> raw, val |-> to_response(store'[Len(store')])]
    /\ UNCHANGED <<now, cache, requests>>

(* TodoService.get_todo. *)
get_todo(todo_id) ==
    /\ result' = IF get_by_id(store, todo_id) = 0
                 THEN [op |-> "get_todo", id |-> todo_id, raised |-> "TodoNotFoundError"]
                 ELSE [op |-> "get_todo", id |-> todo_id, raised |-> "none",
                       val |-> to_response(store[get_by_id(store, todo_id)])]
    /\ UNCHANGED <<store, now, cache, requests>>

(* TodoRepository.update finding the row by its id alone, deleted or not. *)
TodoRepository_update_ignores_flag(st, todo_id, update_data, t) ==
    LET i == get_by_id_ignores_deleted(st, todo_id) IN
    IF i = 0
    THEN [st |-> st, row |-> 0]
    ELSE [st |-> [st EXCEPT ![i] = update_row(st[i], update_data, t)], row |-> i]

(* TodoRepository.update: the store after the call and what it returned   *)
(* (row = 0 stands for None).                                              *)
TodoRepository_update(st, todo_id, update_data, t) ==
    LET i == get_by_id(st, todo_id) IN
    IF i = 0
    THEN [st |-> st, row |-> 0]
    ELSE [st |-> [st EXCEPT ![i] = update_row(st[i], update_data, t)], row |-> i]

(* TodoRepository.delete returning True also when no row was found. *)
TodoRepository_delete_always_true(st, todo_id, t) ==
    LET i == get_by_id(st, todo_id) IN
    IF i = 0
    THEN [st |-> st, success |-> TRUE, row |-> 0]
    ELSE [st |-> [st EXCEPT ![i] = delete_row(st[i], t)], success |-> TRUE, row |-> i]

(* TodoRepository.delete: the store after the call and the boolean it      *)
(* returned.                                                               *)
TodoRepository_delete(st, todo_id, t) ==
    LET i == get_by_id(st, todo_id) IN
    IF i = 0
    THEN [st |-> st, success |-> FALSE, row |-> 0]
    ELSE [st |-> [st EXCEPT ![i] = delete_row(st[i], t)], success |-> TRUE, row |-> i]

(* A direct call of TodoRepository.update with any dict. *)
update(todo_id, update_data) ==
    LET r == TodoRepository_update(store, todo_id, update_data, now) IN
    /\ store' = r.st
    /\ result' = IF r.row = 0
                 THEN [op |-> "update", id |-> todo_id, raised |-> "none",
                       data |-> update_data, found |-> FALSE]
                 ELSE [op |-> "update", id |-> todo_id, raised |-> "none",
                       data |-> update_data, found |-> TRUE,
                       row |-> r.row, val |-> r.st[r.row]]
    /\ UNCHANGED <<now, cache, requests>>

(* TodoService.update_todo without its short-circuit for an empty dict. *)
NoUpdateData_never(update_dict) == FALSE

(* `not update_dict` in TodoService.update_todo. *)
NoUpdateData(update_dict) == DOMAIN update_dict = {}

(* TodoService.update_todo(todo_id, TodoUpdate built from raw): with no    *)
(* update data it returns get_todo(todo_id), else it calls the repository. *)
update_todo(todo_id, raw) ==
    LET update_dict == model_dump_exclude_none(TodoUpdate(raw))
        res == [op |-> "update_todo", id |-> todo_id, raw |-> raw,
                data |-> update_dict]
        i == get_by_id(store, todo_id)
        r == TodoRepository_update(store, todo_id, update_dict, now)
    IN
    /\ IF NoUpdateData(update_dict)
       THEN /\ store' = store
            /\ result' = IF i = 0
                         THEN res @@ [raised |-> "TodoNotFoundError"]
                         ELSE res @@ [raised |-> "none", row |-> i,
                                      val |-> to_response(store[i])]
       ELSE /\ store' = r.st
            /\ result' = IF r.row = 0
                         THEN res @@ [raised |-> "TodoNotFoundError"]
                         ELSE res @@ [raised |-> "none", row |-> r.row,
                                      val |-> to_response(r.st[r.row])]
    /\ UNCHANGED <<now, cache, requests>>

(* TodoService.delete_todo, with the value TodoRepository.delete returned. *)
delete_todo(todo_id) ==
    LET r == TodoRepository_delete(store, todo_id, now) IN
    /\ store' = r.st
    /\ result' = [op |-> "delete_todo", id |-> todo_id, success |-> r.success,
                  row |-> r.row,
                  raised |-> IF r.success THEN "none" ELSE "TodoNotFoundError"]
    /\ UNCHANGED <<now, cache, requests>>

(* TodoService.list_todos. *)
list_todos(filters, sort) ==
    /\ \E todos \in list_all(store, filters, sort) :
          result' = [op |-> "list_todos", id |-> 0, raised |-> "none",
                     filters |-> filters, sort |-> sort,
                     data |-> [k \in DOMAIN todos |-> to_response(todos[k])],
                     metadata |-> [total |-> count_total(store, filters),
                                   page |-> 1, page_size |-> Len(todos)]]
    /\ UNCHANGED <<store, now, cache, requests>>

(* -------------------------------------------------------------- HTTP API *)

(* The value FastAPI binds to a handler parameter declared Query(default): *)
(* the query parameter of the same name as the handler parameter.          *)
Query(query, name, default) == IF name \in DOMAIN query THEN query[name] ELSE default

(* TodoFilters(status=..., priority=..., tags=...). *)
TodoFilters(status, priority, tags) ==
    [status |-> status, priority |-> priority, tags |-> tags]

(* The filters the handler list_todos of api/v1/todos.py builds. *)
api_filters(query) ==
    LET status_filter == Query(query, "status_filter", NoneStr)
        priority_filter == Query(query, "priority_filter", NoneStr)
        tags_filter == Query(query, "tags_filter", NoneTags)
    IN IF status_filter # NoneStr \/ priority_filter # NoneStr
          \/ (tags_filter # NoneTags /\ tags_filter # <<>>)
       THEN TodoFilters(status_filter, priority_filter, tags_filter)
       ELSE NoFilters

(* TodoSort(sort_by=sort_by, sort_order=sort_order) of the same handler. *)
api_sort(query) ==
    [sort_by |-> Query(query, "sort_by", "created_at"),
     sort_order |-> Query(query, "sort_order", "desc")]

(* GET /api/v1/todos with the query parameters `query`. *)
api_list_todos(query) ==
    /\ \E todos \in list_all(store, api_filters(query), api_sort(query)) :
          result' = [op |-> "api_list_todos", id |-> 0, raised |-> "none",
                     query |-> query,
                     data |-> [k \in DOMAIN todos |-> to_response(todos[k])],
                     metadata |-> [total |-> count_total(store, api_filters(query)),
                                   page |-> 1, page_size |-> Len(todos)]]
    /\ UNCHANGED <<store, now, cache, requests>>

(* ---------------------------------------------------------- AI assistant *)

max_retries == 3

base_delay == 1

(* One call of client.chat.completions.create either raises (Failure) or   *)
(* returns a completion whose message content is a text: a text json.loads *)
(* rejects (NotJson), or a JSON document with the data it decodes to.      *)
Raises(error) == [raises |-> TRUE, error |-> error]

Failure == Raises("API Error")

AnotherFailure == Raises("Another transient error")

NotJson == [raises |-> FALSE, json |-> FALSE]

Json(data) == [raises |-> FALSE, json |-> TRUE, data |-> data]

(* The retry loop of _call_openai from the given attempt on: behaviour[k]  *)
(* is what the k-th call of the provider does.  calls counts the calls     *)
(* made, delays lists the waits.                                           *)
RECURSIVE call_openai_from(_, _, _)
call_openai_from(behaviour, attempt, delays) ==
    IF ~behaviour[attempt + 1].raises
    THEN [raised |-> "none", calls |-> attempt + 1, delays |-> delays,
          response_text |-> behaviour[attempt + 1]]
    ELSE IF attempt < max_retries - 1
    THEN call_openai_from(behaviour, attempt + 1,
                          Append(delays, base_delay * 2^attempt))
    ELSE [raised |-> "AIServiceError", calls |-> attempt + 1, delays |-> delays,
          message |-> "Failed to call OpenAI after " \o ToString(max_retries)
                         \o " attempts: " \o behaviour[attempt + 1].error]

(* _call_openai giving up at the first failed call. *)
call_openai_no_retry(behaviour) ==
    IF ~behaviour[1].raises
    THEN [raised |-> "none", calls |-> 1, delays |-> <<>>, response_text |-> behaviour[1]]
    ELSE [raised |-> "AIServiceError", calls |-> 1, delays |-> <<>>]

(* _call_openai waiting once more after the last failed attempt. *)
call_openai_waits_after_last(behaviour) ==
    LET r == call_openai_from(behaviour, 0, <<>>) IN
    IF r.raised = "AIServiceError"
    THEN [r EXCEPT !.delays = Append(@, base_delay * 2^(max_retries - 1))]
    ELSE r

(* _call_openai. *)
call_openai(behaviour) == call_openai_from(behaviour, 0, <<>>)

(* A response model is written as its fields and the name of its class;    *)
(* model_dump gives the plain dict of the fields.                          *)
model_dump(response) == [f \in DOMAIN response \ {"model"} |-> response[f]]

SuggestionItemFields == {"title", "description", "priority"}

(* Whether SuggestionResponse accepts the keyword arguments data. *)
IsSuggestionResponse(data) ==
    /\ "suggestions" \in DOMAIN data
    /\ \A k \in DOMAIN data.suggestions :
          /\ SuggestionItemFields \subseteq DOMAIN data.suggestions[k]
          /\ data.suggestions[k].priority \in Priority

(* SuggestionResponse built from the keyword arguments data. *)
SuggestionResponse(data) ==
    [model |-> "SuggestionResponse",
     suggestions |-> [k \in DOMAIN data.suggestions |->
                        [f \in SuggestionItemFields |-> data.suggestions[k][f]]]]

PrioritizedTodoFields == {"todo_id", "title", "recommended_priority", "reasoning"}

IsPrioritizationResponse(data) ==
    /\ "ranked_todos" \in DOMAIN data
    /\ \A k \in DOMAIN data.ranked_todos :
          /\ PrioritizedTodoFields \subseteq DOMAIN data.ranked_todos[k]
          /\ data.ranked_todos[k].recommended_priority \in Priority

PrioritizationResponse(data) ==
    [model |-> "PrioritizationResponse",
     ranked_todos |-> [k \in DOMAIN data.ranked_todos |->
                         [f \in PrioritizedTodoFields |-> data.ranked_todos[k][f]]]]

IsBreakdownResponse(data) ==
    /\ "subtasks" \in DOMAIN data
    /\ \A k \in DOMAIN data.subtasks :
          /\ {"title", "estimated_order"} \subseteq DOMAIN data.subtasks[k]
          /\ data.subtasks[k].estimated_order >= 1

(* Subtask.dependencies defaults to the empty list. *)
BreakdownResponse(data) ==
    [model |-> "BreakdownResponse",
     subtasks |-> [k \in DOMAIN data.subtasks |->
                     [title |-> data.subtasks[k].title,
                      estimated_order |-> data.subtasks[k].estimated_order,
                      dependencies |-> IF "dependencies" \in DOMAIN data.subtasks[k]
                                       THEN data.subtasks[k].dependencies
                                       ELSE <<>>]]]

(* _parse_suggestion_response accepting every text: what it cannot read    *)
(* becomes an empty list of suggestions.                                   *)
parse_suggestion_response_accepts_all(response) ==
    IF response.json /\ IsSuggestionResponse(response.data)
    THEN [raised |-> "none", val |-> SuggestionResponse(response.data)]
    ELSE [raised |-> "none", val |-> SuggestionResponse([suggestions |-> <<>>])]

(* _parse_suggestion_response: json.loads, then the model; any exception   *)
(* becomes AIServiceError.                                                 *)
parse_suggestion_response(response) ==
    IF response.json /\ IsSuggestionResponse(response.data)
    THEN [raised |-> "none", val |-> SuggestionResponse(response.data)]
    ELSE [raised |-> "AIServiceError"]

parse_prioritization_response(response) ==
    IF response.json /\ IsPrioritizationResponse(response.data)
    THEN [raised |-> "none", val |-> PrioritizationResponse(response.data)]
    ELSE [raised |-> "AIServiceError"]

parse_breakdown_response(response) ==
    IF response.json /\ IsBreakdownResponse(response.data)
    THEN [raised |-> "none", val |-> BreakdownResponse(response.data)]
    ELSE [raised |-> "AIServiceError"]

(* _get_fallback_suggestions. *)
get_fallback_suggestions ==
    SuggestionResponse(
        [suggestions |->
            <<[title |-> "Review your task description",
               description |-> "Break down what you need to accomplish",
               priority |-> "high"],
              [title |-> "Set clear goals",
               description |-> "Define specific, measurable objectives",
               priority |-> "medium"],
              [title |-> "Create an action plan",
               description |-> "Outline steps needed to complete the task",
               priority |-> "medium"]>>])

(* priority_order.get(t.priority, 2). *)
priority_order(priority) ==
    CASE priority = "urgent" -> 0
      [] priority = "high" -> 1
      [] priority = "medium" -> 2
      [] priority = "low" -> 3
      [] OTHER -> 2

(* The second component of the sort key, `t.due_date or "9999-12-31"`: the *)
(* datetime of a dated todo, the string for an undated one.                *)
due_key(t) ==
    IF t.due_date = NoneDate
    THEN [type |-> "str", at |-> 0]
    ELSE [type |-> "datetime", at |-> t.due_date]

(* Comparing the keys of x and y raises TypeError: the ranks are equal, so *)
(* the tuple comparison goes on to compare a datetime with a str.          *)
KeysIncomparable(x, y) ==
    /\ priority_order(x.priority) = priority_order(y.priority)
    /\ due_key(x).type # due_key(y).type

(* key(x) < key(y) for two keys that can be compared. *)
KeyLess(x, y) ==
    \/ priority_order(x.priority) < priority_order(y.priority)
    \/ /\ priority_order(x.priority) = priority_order(y.priority)
       /\ due_key(x).at < due_key(y).at

(* sorted(todos, key=...): a sort has to compare two elements that end up  *)
(* next to each other, so it raises TypeError exactly when two todos have  *)
(* keys that cannot be compared; else it returns the stable ascending      *)
(* order (p lists the positions of todos in the order of the result).      *)
sorted(todos) ==
    IF \E a, b \in DOMAIN todos : KeysIncomparable(todos[a], todos[b])
    THEN [raised |-> "TypeError"]
    ELSE LET p == CHOOSE q \in Orderings(DOMAIN todos) :
                     \A a, b \in DOMAIN todos :
                        a < b => \/ KeyLess(todos[q[a]], todos[q[b]])
                                 \/ /\ ~KeyLess(todos[q[b]], todos[q[a]])
                                    /\ q[a] < q[b]
         IN [raised |-> "none", val |-> [k \in DOMAIN todos |-> todos[p[k]]]]

(* _get_fallback_prioritization.  The reasoning text formats the enum      *)
(* member, which prints as Priority.NAME.                                  *)
get_fallback_prioritization(todos) ==
    LET sorted_todos == sorted(todos) IN
    IF sorted_todos.raised # "none"
    THEN [raised |-> sorted_todos.raised]
    ELSE [raised |-> "none",
          val |-> PrioritizationResponse(
                     [ranked_todos |->
                        [k \in DOMAIN sorted_todos.val |->
                           [todo_id |-> sorted_todos.val[k].id,
                            title |-> sorted_todos.val[k].title,
                            recommended_priority |-> sorted_todos.val[k].priority,
                            reasoning |-> "Based on priority (Priority."
                                             \o enum_name(sorted_todos.val[k].priority)
                                             \o ") and due date"]]])]

(* _get_fallback_breakdown. *)
get_fallback_breakdown(task) ==
    BreakdownResponse(
        [subtasks |->
            <<[title |-> "Define requirements", estimated_order |-> 1,
               dependencies |-> <<>>],
              [title |-> "Plan implementation", estimated_order |-> 2,
               dependencies |-> <<0>>],
              [title |-> "Execute the plan", estimated_order |-> 3,
               dependencies |-> <<1>>]>>])

(* The cache keys.  hash(str(request.todos)) is written as the text of the *)
(* list: lists that differ get different keys here.                        *)
suggest_key(request) == "suggest:" \o request.description

prioritize_key(request) == "prioritize:" \o ToString(request.todos)

breakdown_key(request) == "breakdown:" \o request.task

(* `cache_key in self.cache` always answering no. *)
cache_has_never(c, cache_key) == FALSE

(* `cache_key in self.cache`. *)
cache_has(c, cache_key) == cache_key \in DOMAIN c

(* self.cache[cache_key] = value written only when the key is not there. *)
cache_put_keeps_first(c, cache_key, value) ==
    IF cache_key \in DOMAIN c THEN c ELSE (cache_key :> value) @@ c

(* self.cache[cache_key] = value. *)
cache_put(c, cache_key, value) == (cache_key :> value) @@ c

(* What a request method leaves in result: the response it returned or the *)
(* exception it raised, with where the response came from (cache, ai,      *)
(* fallback) and the provider calls and waits the request made.            *)
AIResult(op, request, cache_key, behaviour, source, called, outcome) ==
    [op |-> op, id |-> 0, request |-> request, cache_key |-> cache_key,
     behaviour |-> behaviour, source |-> source,
     calls |-> called.calls, delays |-> called.delays] @@ outcome

NoCall == [calls |-> 0, delays |-> <<>>]

(* generate_suggestions writing the fallback to the cache as well. *)
generate_suggestions_caches_fallback(request, behaviour) ==
    LET cache_key == suggest_key(request)
        called == call_openai(behaviour)
        parsed == IF called.raised = "none"
                  THEN parse_suggestion_response(called.response_text)
                  ELSE [raised |-> called.raised]
    IN
    /\ IF cache_has(cache, cache_key)
       THEN /\ result' = AIResult("generate_suggestions", request, cache_key, behaviour,
                                  "cache", NoCall,
                                  [raised |-> "none",
                                   val |-> SuggestionResponse(cache[cache_key])])
            /\ cache' = cache
       ELSE IF parsed.raised = "none"
       THEN /\ cache' = cache_put(cache, cache_key, model_dump(parsed.val))
            /\ result' = AIResult("generate_suggestions", request, cache_key, behaviour,
                                  "ai", called, parsed)
       ELSE /\ cache' = cache_put(cache, cache_key, model_dump(get_fallback_suggestions))
            /\ result' = AIResult("generate_suggestions", request, cache_key, behaviour,
                                  "fallback", called,
                                  [raised |-> "none", val |-> get_fallback_suggestions])
    /\ UNCHANGED <<store, now, requests>>

(* AIService.generate_suggestions(request) with a provider that behaves as *)
(* behaviour says.                                                         *)
generate_suggestions(request, behaviour) ==
    LET cache_key == suggest_key(request)
        called == call_openai(behaviour)
        parsed == IF called.raised = "none"
                  THEN parse_suggestion_response(called.response_text)
                  ELSE [raised |-> called.raised]
    IN
    /\ IF cache_has(cache, cache_key)
       THEN /\ result' = AIResult("generate_suggestions", request, cache_key, behaviour,
                                  "cache", NoCall,
                                  [raised |-> "none",
                                   val |-> SuggestionResponse(cache[cache_key])])
            /\ cache' = cache
       ELSE IF parsed.raised = "none"
       THEN /\ cache' = cache_put(cache, cache_key, model_dump(parsed.val))
            /\ result' = AIResult("generate_suggestions", request, cache_key, behaviour,
                                  "ai", called, parsed)
       ELSE /\ cache' = cache
            /\ result' = AIResult("generate_suggestions", request, cache_key, behaviour,
                                  "fallback", called,
                                  [raised |-> "none", val |-> get_fallback_suggestions])
    /\ UNCHANGED <<store, now, requests>>

(* AIService.prioritize_todos(request) on the cache c: the cache after the *)
(* call and what the call returned or raised.                              *)
prioritize_todos_call(c, request, behaviour) ==
    LET cache_key == prioritize_key(request)
        called == call_openai(behaviour)
        parsed == IF called.raised = "none"
                  THEN parse_prioritization_response(called.response_text)
                  ELSE [raised |-> called.raised]
    IN
    IF cache_has(c, cache_key)
    THEN [cache |-> c,
          result |-> AIResult("prioritize_todos", request, cache_key, behaviour,
                              "cache", NoCall,
                              [raised |-> "none",
                               val |-> PrioritizationResponse(c[cache_key])])]
    ELSE IF parsed.raised = "none"
    THEN [cache |-> cache_put(c, cache_key, model_dump(parsed.val)),
          result |-> AIResult("prioritize_todos", request, cache_key, behaviour,
                              "ai", called, parsed)]
    ELSE [cache |-> c,
          result |-> AIResult("prioritize_todos", request, cache_key, behaviour,
                              "fallback", called,
                              get_fallback_prioritization(request.todos))]

(* AIService.prioritize_todos(request). *)
prioritize_todos(request, behaviour) ==
    /\ cache' = prioritize_todos_call(cache, request, behaviour).cache
    /\ result' = prioritize_todos_call(cache, request, behaviour).result
    /\ UNCHANGED <<store, now, requests>>

(* AIService.breakdown_task(request). *)
breakdown_task(request, behaviour) ==
    LET cache_key == breakdown_key(request)
        called == call_openai(behaviour)
        parsed == IF called.raised = "none"
                  THEN parse_breakdown_response(called.response_text)
                  ELSE [raised |-> called.raised]
    IN
    /\ IF cache_has(cache, cache_key)
       THEN /\ result' = AIResult("breakdown_task", request, cache_key, behaviour,
                                  "cache", NoCall,
                                  [raised |-> "none",
                                   val |-> BreakdownResponse(cache[cache_key])])
            /\ cache' = cache
       ELSE IF parsed.raised = "none"
       THEN /\ cache' = cache_put(cache, cache_key, model_dump(parsed.val))
            /\ result' = AIResult("breakdown_task", request, cache_key, behaviour,
                                  "ai", called, parsed)
       ELSE /\ cache' = cache
            /\ result' = AIResult("breakdown_task", request, cache_key, behaviour,
                                  "fallback", called,
                                  [raised |-> "none",
                                   val |-> get_fallback_breakdown(request.task)])
    /\ UNCHANGED <<store, now, requests>>

(* One call of AIService._call_openai(prompt) with a provider that behaves *)
(* as behaviour says: result keeps what it returned or raised, the calls   *)
(* it made and the waits between them.                                     *)
await_call_openai(behaviour) ==
    /\ result' = [op |-> "_call_openai", id |-> 0, behaviour |-> behaviour]
                  @@ call_openai(behaviour)
    /\ UNCHANGED <<store, now, cache, requests>>

(* ------------------------------------------- concurrent assistant calls *)

(* generate_suggestions of client p up to its first await: the check of    *)
(* the cache, which answers the request on a hit; on a miss the coroutine  *)
(* is suspended in _call_openai, and other requests of the one AIService   *)
(* (get_ai_service) run meanwhile.                                         *)
begin_generate_suggestions(p, request) ==
    LET cache_key == suggest_key(request)
        hit == AIResult("generate_suggestions", request, cache_key, << >>,
                        "cache", NoCall,
                        [raised |-> "none", val |-> SuggestionResponse(cache[cache_key])])
    IN
    /\ requests[p].pc # "awaiting"
    /\ IF cache_has(cache, cache_key)
       THEN /\ requests' = [requests EXCEPT ![p] = [pc |-> "done"] @@ hit]
            /\ result' = [client |-> p] @@ hit
       ELSE /\ requests' = [requests EXCEPT ![p] =
                               [pc |-> "awaiting", op |-> "generate_suggestions",
                                request |-> request, cache_key |-> cache_key]]
            /\ result' = result
    /\ UNCHANGED <<store, now, cache>>

(* generate_suggestions of client p from the return of _call_openai to its *)
(* own return: the parse, the write of the cache, or the fallback.         *)
resume_generate_suggestions(p, behaviour) ==
    LET request == requests[p].request
        cache_key == requests[p].cache_key
        called == call_openai(behaviour)
        parsed == IF called.raised = "none"
                  THEN parse_suggestion_response(called.response_text)
                  ELSE [raised |-> called.raised]
        ai == AIResult("generate_suggestions", request, cache_key, behaviour,
                       "ai", called, parsed)
        fallback == AIResult("generate_suggestions", request, cache_key, behaviour,
                             "fallback", called,
                             [raised |-> "none", val |-> get_fallback_suggestions])
    IN
    /\ requests[p].pc = "awaiting"
    /\ IF parsed.raised = "none"
       THEN /\ cache' = cache_put(cache, cache_key, model_dump(parsed.val))
            /\ requests' = [requests EXCEPT ![p] = [pc |-> "done"] @@ ai]
            /\ result' = [client |-> p] @@ ai
       ELSE /\ cache' = cache
            /\ requests' = [requests EXCEPT ![p] = [pc |-> "done"] @@ fallback]
            /\ result' = [client |-> p] @@ fallback
    /\ UNCHANGED <<store, now>>

(* --------------------------------------------- concurrent todo requests *)

(* session.commit() for one loaded object: the unit of work writes, by the *)
(* primary key, the columns whose value in the object differs from the     *)
(* value it was loaded with; the other columns of the row stay as the      *)
(* database has them now.                                                  *)
flush(current, loaded, todo) ==
    [f \in DOMAIN current |-> IF todo[f] # loaded[f] THEN todo[f] ELSE current[f]]

(* A request of client p has finished: result keeps what it returned or   *)
(* raised, and the client has no request in progress.                      *)
Finish(p, outcome) ==
    /\ requests' = [requests EXCEPT ![p] = Idle]
    /\ result' = [client |-> p] @@ outcome

(* TodoService.update_todo of client p, each request with its own session  *)
(* (get_db_session), up to session.commit(): the select of get_by_id and   *)
(* the assignments to the loaded object.  With no update data it is        *)
(* get_todo, and with no row found it raises.                              *)
begin_update_todo(p, todo_id, raw) ==
    LET update_dict == model_dump_exclude_none(TodoUpdate(raw))
        res == [op |-> "update_todo", id |-> todo_id, data |-> update_dict]
        i == get_by_id(store, todo_id)
    IN
    /\ requests[p].pc # "loaded"
    /\ IF i = 0
       THEN Finish(p, res @@ [raised |-> "TodoNotFoundError"])
       ELSE IF NoUpdateData(update_dict)
       THEN Finish(p, res @@ [raised |-> "none", row |-> i, entity |-> store[i],
                              val |-> to_response(store[i])])
       ELSE /\ requests' = [requests EXCEPT ![p] =
                              [pc |-> "loaded"] @@ res
                              @@ [row |-> i, loaded |-> store[i],
                                  todo |-> update_row(store[i], update_dict, now)]]
            /\ result' = result
    /\ UNCHANGED <<store, now, cache>>

(* TodoRepository.update of client p from session.commit() on: the commit, *)
(* session.refresh(todo), which reads the row by its primary key, and the  *)
(* return of the entity.                                                   *)
commit_update_todo(p) ==
    LET r == requests[p]
        st == [store EXCEPT ![r.row] = flush(store[r.row], r.loaded, r.todo)]
    IN
    /\ r.pc = "loaded"
    /\ r.op = "update_todo"
    /\ store' = st
    /\ Finish(p, [op |-> "update_todo", id |-> r.id, data |-> r.data,
                  raised |-> "none", row |-> r.row, loaded |-> r.loaded,
                  entity |-> st[r.row], val |-> to_response(st[r.row])])
    /\ UNCHANGED <<now, cache>>

(* TodoService.delete_todo of client p up to session.commit(). *)
begin_delete_todo(p, todo_id) ==
    LET res == [op |-> "delete_todo", id |-> todo_id]
        i == get_by_id(store, todo_id)
    IN
    /\ requests[p].pc # "loaded"
    /\ IF i = 0
       THEN Finish(p, res @@ [raised |-> "TodoNotFoundError", success |-> FALSE])
       ELSE /\ requests' = [requests EXCEPT ![p] =
                              [pc |-> "loaded"] @@ res
                              @@ [row |-> i, loaded |-> store[i],
                                  todo |-> delete_row(store[i], now)]]
            /\ result' = result
    /\ UNCHANGED <<store, now, cache>>

(* TodoRepository.delete of client p from session.commit() on: it returns *)
(* True.                                                                   *)
commit_delete_todo(p) ==
    LET r == requests[p] IN
    /\ r.pc = "loaded"
    /\ r.op = "delete_todo"
    /\ store' = [store EXCEPT ![r.row] = flush(store[r.row], r.loaded, r.todo)]
    /\ Finish(p, [op |-> "delete_todo", id |-> r.id, raised |-> "none",
                  row |-> r.row, loaded |-> r.loaded, success |-> TRUE])
    /\ UNCHANGED <<now, cache>>

(* ---------------------------------------------------------- tool adapter *)

(* _format_success and _format_error. *)
format_success(data) == [status |-> "success", data |-> data]

format_error(message) == [status |-> "error", error |-> [message |-> message]]

(* What a method of the todo service did when a tool called it: the table  *)
(* after the call and the value it returned or the exception it raised.    *)
(* service_error names an exception the database raises under the call     *)
(* ("none" for no failure); the table is then left as it was.              *)
Raised(st, exception, message, service_calls) ==
    [st |-> st, raised |-> exception, message |-> message,
     service_calls |-> service_calls]

Returned(st, ret, service_calls) ==
    [st |-> st, raised |-> "none", ret |-> ret, service_calls |-> service_calls]

NotFoundMessage(todo_id) == "Todo with id " \o ToString(todo_id) \o " not found"

(* TodoService.create_todo as called by create_todo_tool. *)
service_create_todo(st, todo_data, t, service_error) ==
    IF service_error # "none"
    THEN Raised(st, service_error, "Database error", 1)
    ELSE Returned(create(st, NewTodo(todo_data, t)),
                  format_success(to_response(create(st, NewTodo(todo_data, t))[Len(st) + 1])),
                  1)

(* TodoService.update_todo as called by update_todo_tool. *)
service_update_todo(st, todo_id, update_data, t, service_error) ==
    LET update_dict == model_dump_exclude_none(update_data)
        i == get_by_id(st, todo_id)
        r == TodoRepository_update(st, todo_id, update_dict, t)
    IN
    IF service_error # "none"
    THEN Raised(st, service_error, "Database error", 1)
    ELSE IF NoUpdateData(update_dict)
    THEN IF i = 0
         THEN Raised(st, "TodoNotFoundError", NotFoundMessage(todo_id), 1)
         ELSE Returned(st, format_success(to_response(st[i])), 1)
    ELSE IF r.row = 0
         THEN Raised(st, "TodoNotFoundError", NotFoundMessage(todo_id), 1)
         ELSE Returned(r.st, format_success(to_response(r.st[r.row])), 1)

(* TodoService.delete_todo as called by delete_todo_tool. *)
service_delete_todo(st, todo_id, t, service_error) ==
    LET r == TodoRepository_delete(st, todo_id, t) IN
    IF service_error # "none"
    THEN Raised(st, service_error, "Database error", 1)
    ELSE IF ~r.success
    THEN Raised(st, "TodoNotFoundError", NotFoundMessage(todo_id), 1)
    ELSE Returned(r.st, format_success([deleted |-> TRUE, id |-> todo_id]), 1)

(* Priority(value) and Status(value) raise ValueError for a value that is  *)
(* no member.                                                              *)
NotAMember(params, key, members) == key \in DOMAIN params /\ params[key] \notin members

NotAMemberMessage(value, class) == "'" \o value \o "' is not a valid " \o class

(* create_todo_tool without the check for the title: params["title"]       *)
(* raises KeyError.                                                        *)
create_todo_tool_unchecked(st, t, params, service_error) ==
    IF "title" \notin DOMAIN params
    THEN {Raised(st, "KeyError", "'title'", 0)}
    ELSE IF NotAMember(params, "priority", Priority)
    THEN {Raised(st, "ValueError", NotAMemberMessage(params.priority, "Priority"), 0)}
    ELSE IF params.title = ""
    THEN {Raised(st, "ValidationError", "String should have at least 1 character", 0)}
    ELSE {service_create_todo(st, TodoCreate(params), t, service_error)}

(* create_todo_tool: the outcomes of the handler (one). *)
create_todo_tool(st, t, params, service_error) ==
    IF "title" \notin DOMAIN params
    THEN {Returned(st, format_error("Missing required field: title"), 0)}
    ELSE IF NotAMember(params, "priority", Priority)
    THEN {Raised(st, "ValueError", NotAMemberMessage(params.priority, "Priority"), 0)}
    ELSE IF params.title = ""
    THEN {Raised(st, "ValidationError", "String should have at least 1 character", 0)}
    ELSE {service_create_todo(st, TodoCreate(params), t, service_error)}

(* list_todos_tool: one outcome for each order the listing can come in. *)
list_todos_tool(st, t, params, service_error) ==
    IF NotAMember(params, "status", Status)
    THEN {Raised(st, "ValueError", NotAMemberMessage(params.status, "Status"), 0)}
    ELSE IF NotAMember(params, "priority", Priority)
    THEN {Raised(st, "ValueError", NotAMemberMessage(params.priority, "Priority"), 0)}
    ELSE IF service_error # "none"
    THEN {Raised(st, service_error, "Database error", 1)}
    ELSE {Returned(st,
                   format_success([todos |-> [k \in DOMAIN todos |-> to_response(todos[k])],
                                   total |-> Len(todos)]),
                   1) :
             todos \in list_all(st,
                                TodoFilters(Query(params, "status", NoneStr),
                                            Query(params, "priority", NoneStr),
                                            Query(params, "tags", NoneTags)),
                                NoSort)}

(* The keys update_todo_tool copies from params into the update. *)
ToolUpdateKeys == {"title", "description", "status", "priority", "tags"}

(* update_todo_tool. *)
update_todo_tool(st, t, params, service_error) ==
    IF "id" \notin DOMAIN params
    THEN {Returned(st, format_error("Missing required field: id"), 0)}
    ELSE IF NotAMember(params, "status", Status)
    THEN {Raised(st, "ValueError", NotAMemberMessage(params.status, "Status"), 0)}
    ELSE IF NotAMember(params, "priority", Priority)
    THEN {Raised(st, "ValueError", NotAMemberMessage(params.priority, "Priority"), 0)}
    ELSE {service_update_todo(st, params.id,
                              TodoUpdate([k \in DOMAIN params \cap ToolUpdateKeys |-> params[k]]),
                              t, service_error)}

(* delete_todo_tool. *)
delete_todo_tool(st, t, params, service_error) ==
    IF "id" \notin DOMAIN params
    THEN {Returned(st, format_error("Missing required field: id"), 0)}
    ELSE {service_delete_todo(st, params.id, t, service_error)}

(* The keys of tool_handlers. *)
ToolNames == {"create_todo", "list_todos", "update_todo", "delete_todo"}

(* tool_handlers[tool_name] applied to params. *)
tool_handler(tool_name, st, t, params, service_error) ==
    CASE tool_name = "create_todo" -> create_todo_tool(st, t, params, service_error)
      [] tool_name = "list_todos" -> list_todos_tool(st, t, params, service_error)
      [] tool_name = "update_todo" -> update_todo_tool(st, t, params, service_error)
      [] tool_name = "delete_todo" -> delete_todo_tool(st, t, params, service_error)

(* MCPService.handle_tool_call(tool_name, params): an unknown name raises  *)
(* MCPServiceError before the try block; an exception of the handler is    *)
(* turned into an error result.                                            *)
handle_tool_call(tool_name, params, service_error) ==
    LET call == [op |-> "handle_tool_call", id |-> 0, tool_name |-> tool_name,
                 params |-> params, service_error |-> service_error]
    IN
    /\ tool_name = "create_todo" => Len(store) < MaxTodos
    /\ IF tool_name \notin ToolNames
       THEN /\ result' = call @@ [raised |-> "MCPServiceError",
                                  message |-> "Unknown tool: " \o tool_name,
                                  service_calls |-> 0]
            /\ store' = store
       ELSE \E h \in tool_handler(tool_name, store, now, params, service_error) :
               /\ store' = h.st
               /\ result' = call @@ [raised |-> "none",
                                     service_calls |-> h.service_calls,
                                     ret |-> IF h.raised = "none"
                                             THEN h.ret
                                             ELSE format_error(h.message)]
    /\ UNCHANGED <<now, cache, requests>>

(* ------------------------------------------------------ HTTP error layer *)

(* The members of ErrorCode. *)
ErrorCode ==
    {"VALIDATION_ERROR", "NOT_FOUND", "RATE_LIMIT_EXCEEDED", "INTERNAL_ERROR",
     "AI_UNAVAILABLE"}

(* HTTPException(status_code=..., detail=...). *)
HTTPException(status_code, detail) ==
    [exception |-> "HTTPException", status_code |-> status_code, detail |-> detail]

(* The RequestValidationError FastAPI raises for a request that does not   *)
(* fit the handler's parameters; errors maps each location to its message. *)
RequestValidationError(errors) ==
    [exception |-> "RequestValidationError", errors |-> errors]

(* Any other exception that leaves a handler. *)
Unhandled(name) == [exception |-> name]

(* JSONResponse(status_code=..., content=...). *)
JSONResponse(status_code, content) == [status_code |-> status_code, content |-> content]

(* ErrorResponse(error=...).model_dump(): error is a plain dict and comes  *)
(* back as it was given.                                                   *)
ErrorResponse(error) == [error |-> error]

(* validation_exception_handler answering with the status 422. *)
validation_exception_handler_unprocessable(exc) ==
    JSONResponse(422, ErrorResponse([code |-> "VALIDATION_ERROR",
                                     message |-> "Invalid request data",
                                     details |-> exc.errors]))

(* validation_exception_handler. *)
validation_exception_handler(exc) ==
    JSONResponse(400, ErrorResponse([code |-> "VALIDATION_ERROR",
                                     message |-> "Invalid request data",
                                     details |-> exc.errors]))

(* http_exception_handler answering INTERNAL_ERROR for every status. *)
http_exception_handler_one_code(exc) ==
    JSONResponse(exc.status_code,
                 ErrorResponse([code |-> "INTERNAL_ERROR", message |-> exc.detail]))

(* http_exception_handler. *)
http_exception_handler(exc) ==
    JSONResponse(exc.status_code,
                 ErrorResponse([code |-> IF exc.status_code = 404
                                         THEN "NOT_FOUND" ELSE "INTERNAL_ERROR",
                                message |-> exc.detail]))

(* general_exception_handler. *)
general_exception_handler(exc) ==
    JSONResponse(500, ErrorResponse([code |-> "INTERNAL_ERROR",
                                     message |-> "An unexpected error occurred"]))

(* The handler registered for the class of the exception. *)
exception_handler(exc) ==
    CASE exc.exception = "RequestValidationError" -> validation_exception_handler(exc)
      [] exc.exception = "HTTPException" -> http_exception_handler(exc)
      [] OTHER -> general_exception_handler(exc)

(* The errors of a request body declared TodoCreate: title is required and *)
(* has min_length=1.                                                       *)
TodoCreateErrors(raw) ==
    IF "title" \notin DOMAIN raw THEN [body_title |-> "Field required"]
    ELSE IF raw.title = "" THEN [body_title |-> "String should have at least 1 character"]
    ELSE << >>

(* The errors of a request body declared TodoUpdate: a title that is given *)
(* has min_length=1.                                                       *)
TodoUpdateErrors(raw) ==
    IF "title" \in DOMAIN raw /\ raw.title = ""
    THEN [body_title |-> "String should have at least 1 character"]
    ELSE << >>

(* TodoService.get_todo as called by the handler of GET /todos/{todo_id}. *)
service_get_todo(st, todo_id, service_error) ==
    IF service_error # "none"
    THEN Raised(st, service_error, "Database error", 1)
    ELSE IF get_by_id(st, todo_id) = 0
    THEN Raised(st, "TodoNotFoundError", NotFoundMessage(todo_id), 1)
    ELSE Returned(st, to_response(st[get_by_id(st, todo_id)]), 1)

(* What a handler of api/v1/todos.py leaves in result: the request and the *)
(* response the application sent, and the table after the request.         *)
Respond(call, st, response) ==
    /\ store' = st
    /\ result' = call @@ [raised |-> "none", response |-> response]
    /\ UNCHANGED <<now, cache, requests>>

(* POST /api/v1/todos with the body raw. *)
api_create_todo(raw, service_error) ==
    LET call == [op |-> "api_create_todo", id |-> 0, body |-> raw,
                 service_error |-> service_error]
        r == service_create_todo(store, TodoCreate(raw), now, service_error)
    IN
    /\ Len(store) < MaxTodos
    /\ IF DOMAIN TodoCreateErrors(raw) # {}
       THEN Respond(call, store,
                    exception_handler(RequestValidationError(TodoCreateErrors(raw))))
       ELSE IF r.raised = "none"
       THEN Respond(call, r.st, JSONResponse(201, r.ret.data))
       ELSE Respond(call, r.st,
                    exception_handler(HTTPException(500, "Failed to create todo")))

(* GET /api/v1/todos/{todo_id}. *)
api_get_todo(todo_id, service_error) ==
    LET call == [op |-> "api_get_todo", id |-> todo_id, service_error |-> service_error]
        r == service_get_todo(store, todo_id, service_error)
    IN
    IF r.raised = "none"
    THEN Respond(call, r.st, JSONResponse(200, r.ret))
    ELSE IF r.raised = "TodoNotFoundError"
    THEN Respond(call, r.st, exception_handler(HTTPException(404, r.message)))
    ELSE Respond(call, r.st, exception_handler(Unhandled(r.raised)))

(* PATCH /api/v1/todos/{todo_id} with the body raw. *)
api_update_todo(todo_id, raw, service_error) ==
    LET call == [op |-> "api_update_todo", id |-> todo_id, body |-> raw,
                 service_error |-> service_error]
        r == service_update_todo(store, todo_id, TodoUpdate(raw), now, service_error)
    IN
    IF DOMAIN TodoUpdateErrors(raw) # {}
    THEN Respond(call, store,
                 exception_handler(RequestValidationError(TodoUpdateErrors(raw))))
    ELSE IF r.raised = "none"
    THEN Respond(call, r.st, JSONResponse(200, r.ret.data))
    ELSE IF r.raised = "TodoNotFoundError"
    THEN Respond(call, r.st, exception_handler(HTTPException(404, r.message)))
    ELSE Respond(call, r.st,
                 exception_handler(HTTPException(500, "Failed to update todo")))

(* DELETE /api/v1/todos/{todo_id}: 204 with no body (None). *)
api_delete_todo(todo_id, service_error) ==
    LET call == [op |-> "api_delete_todo", id |-> todo_id, service_error |-> service_error]
        r == service_delete_todo(store, todo_id, now, service_error)
    IN
    IF r.raised = "none"
    THEN Respond(call, r.st, JSONResponse(204, NoneStr))
    ELSE IF r.raised = "TodoNotFoundError"
    THEN Respond(call, r.st, exception_handler(HTTPException(404, r.message)))
    ELSE Respond(call, r.st,
                 exception_handler(HTTPException(500, "Failed to delete todo")))

(* POST /api/v1/ai/prioritize with a request body that fits               *)
(* PrioritizationRequest.                                                  *)
api_prioritize_todos(request, behaviour) ==
    LET call == [op |-> "api_prioritize_todos", id |-> 0, request |-> request,
                 behaviour |-> behaviour, service_error |-> "none"]
        r == prioritize_todos_call(cache, request, behaviour)
        response == IF r.result.raised = "none"
                    THEN JSONResponse(200, r.result.val)
                    ELSE IF r.result.raised = "AIServiceError"
                    THEN exception_handler(
                             HTTPException(503, "AI service temporarily unavailable"))
                    ELSE exception_handler(
                             HTTPException(500, "Failed to prioritize todos"))
    IN
    /\ cache' = r.cache
    /\ result' = call @@ [raised |-> "none", response |-> response]
    /\ UNCHANGED <<store, now, requests>>

(* ------------------------------------------- Spec: lifecycle and the clock *)

CreateInputs == {[title |-> "t1"]}

ServiceUpdates ==
    {[status |-> "completed"],
     << >>}

RepositoryUpdates ==
    {[id |-> 3, created_at |-> 1, modified_at |-> 0]}

Next ==
    \/ \E raw \in CreateInputs : create_todo(raw)
    \/ \E todo_id \in Ids : get_todo(todo_id)
    \/ \E todo_id \in Ids, raw \in ServiceUpdates : update_todo(todo_id, raw)
    \/ \E todo_id \in Ids, update_data \in RepositoryUpdates : update(todo_id, update_data)
    \/ \E todo_id \in Ids : delete_todo(todo_id)
    \/ Tick

Spec == Init /\ [][Next]_vars

(* ----------------------------------- SpecFields: field values, no clock *)

FieldCreateInputs ==
    {[title |-> "t1", description |-> "d1"],
     [title |-> "t1", description |-> "d1", status |-> "completed",
      priority |-> "high", tags |-> <<"x">>]}

FieldServiceUpdates ==
    {[status |-> "in_progress"],
     [title |-> "t2", priority |-> "low"]}

FieldRepositoryUpdates ==
    {[no_such_attribute |-> 1, status |-> "in_progress"]}

NextFields ==
    \/ \E raw \in FieldCreateInputs : create_todo(raw)
    \/ \E todo_id \in Ids : get_todo(todo_id)
    \/ \E todo_id \in Ids, raw \in FieldServiceUpdates : update_todo(todo_id, raw)
    \/ \E todo_id \in Ids, update_data \in FieldRepositoryUpdates : update(todo_id, update_data)
    \/ \E todo_id \in Ids : delete_todo(todo_id)

SpecFields == Init /\ [][NextFields]_vars

(* ------------------------------------------ SpecList: listing the table *)

ListCreateInputs ==
    {[title |-> "t1", priority |-> "low"],
     [title |-> "t1", priority |-> "high", tags |-> <<"x">>]}

ListServiceUpdates == {[status |-> "completed"]}

ListFilters ==
    {NoFilters,
     TodoFilters("pending", NoneStr, NoneTags),
     TodoFilters("completed", NoneStr, NoneTags),
     TodoFilters(NoneStr, "high", NoneTags),
     TodoFilters(NoneStr, "low", NoneTags),
     TodoFilters("completed", "low", NoneTags),
     TodoFilters(NoneStr, NoneStr, <<"x">>),
     TodoFilters(NoneStr, NoneStr, <<"x", "y">>),
     TodoFilters("pending", NoneStr, <<"y", "x">>)}

ListSorts == {NoSort, [sort_by |-> "created_at", sort_order |-> "desc"]}

ListQueries ==
    {<< >>,
     [status |-> "pending"],
     [priority |-> "high"],
     [status_filter |-> "pending"],
     [priority_filter |-> "high", sort_by |-> "id", sort_order |-> "asc"],
     [tags_filter |-> <<"x">>, sort_by |-> "no_such_attribute"]}

NextList ==
    \/ \E raw \in ListCreateInputs : create_todo(raw)
    \/ \E todo_id \in Ids, raw \in ListServiceUpdates : update_todo(todo_id, raw)
    \/ \E todo_id \in Ids : delete_todo(todo_id)
    \/ \E filters \in ListFilters, sort \in ListSorts : list_todos(filters, sort)
    \/ \E query \in ListQueries : api_list_todos(query)

SpecList == Init /\ [][NextList]_vars

(* ------------------------------------ SpecSort: ordering of the listing *)

SortCreateInputs ==
    {[title |-> "t1", priority |-> "low"],
     [title |-> "t1", priority |-> "high"]}

SortSorts ==
    {NoSort,
     [sort_by |-> "created_at", sort_order |-> "desc"],
     [sort_by |-> "created_at", sort_order |-> "asc"],
     [sort_by |-> "id", sort_order |-> "asc"],
     [sort_by |-> "no_such_attribute", sort_order |-> "asc"],
     [sort_by |-> "priority", sort_order |-> "asc"],
     [sort_by |-> "priority", sort_order |-> "desc"]}

NextSort ==
    \/ \E raw \in SortCreateInputs : create_todo(raw)
    \/ \E todo_id \in Ids : delete_todo(todo_id)
    \/ \E sort \in SortSorts : list_todos(NoFilters, sort)
    \/ Tick

SpecSort == Init /\ [][NextSort]_vars

(* ------------------------------------------- SpecAI: the AI assistant *)

SuggestionsA ==
    Json([suggestions |->
            <<[title |-> "Test Suggestion", description |-> "Test Description",
               priority |-> "high"]>>])

SuggestionsB ==
    Json([suggestions |->
            <<[title |-> "Another", description |-> "Later answer",
               priority |-> "low", extra |-> "ignored"]>>])

RankedA ==
    Json([ranked_todos |->
            <<[todo_id |-> 1, title |-> "High Priority Task",
               recommended_priority |-> "urgent", reasoning |-> "Due tomorrow"]>>])

SubtasksA ==
    Json([subtasks |->
            <<[title |-> "First step", estimated_order |-> 1],
              [title |-> "Second step", estimated_order |-> 2,
               dependencies |-> <<0>>]>>])

ProviderOutcomes ==
    {Failure, NotJson, SuggestionsA, SuggestionsB, RankedA, SubtasksA}

(* What the provider does on each of the calls a request can make; the     *)
(* calls after the first one that returns are never made.                  *)
Behaviours ==
    {b \in [1..max_retries -> ProviderOutcomes] :
        \A a, c \in 1..max_retries : (a < c /\ ~b[a].raises) => b[c] = Failure}

TodoSummary(id, title, due_date, priority) ==
    [id |-> id, title |-> title, due_date |-> due_date, priority |-> priority]

SuggestionRequests == {[description |-> "d1"], [description |-> "d2"]}

PrioritizationRequests ==
    {[todos |-> <<TodoSummary(1, "Task 1", NoneDate, "high"),
                  TodoSummary(2, "Task 2", NoneDate, "low")>>],
     [todos |-> <<TodoSummary(1, "Task 1", 1, "high"),
                  TodoSummary(2, "Task 2", NoneDate, "high")>>],
     [todos |-> <<TodoSummary(1, "Task 1", 1, "low"),
                  TodoSummary(2, "Task 2", 1, "urgent"),
                  TodoSummary(3, "Task 3", 0, "low")>>]}

BreakdownRequests == {[task |-> "k1"]}

NextAI ==
    \/ \E request \in SuggestionRequests, behaviour \in Behaviours :
          generate_suggestions(request, behaviour)
    \/ \E request \in PrioritizationRequests, behaviour \in Behaviours :
          prioritize_todos(request, behaviour)
    \/ \E request \in BreakdownRequests, behaviour \in Behaviours :
          breakdown_task(request, behaviour)

SpecAI == Init /\ [][NextAI]_vars

(* ------------------------------------------ SpecMCP: the tool adapter *)

ToolCalls ==
    {<<"create_todo", params>> :
        params \in {[title |-> "t1"],
                    [title |-> "t1", priority |-> "high", status |-> "completed"],
                    [title |-> "t1", priority |-> "soon"],
                    [title |-> ""],
                    [description |-> "No title"]}}
    \cup {<<"list_todos", params>> :
        params \in {<< >>, [status |-> "pending", priority |-> "high"]}}
    \cup {<<"update_todo", params>> :
        params \in {[id |-> i, status |-> "in_progress"] : i \in Ids}
                   \cup {[id |-> 1], [id |-> 1, status |-> "done"],
                         [status |-> "in_progress"]}}
    \cup {<<"delete_todo", params>> :
        params \in {[id |-> i] : i \in Ids} \cup {<< >>}}
    \cup {<<"unknown_tool", << >> >>}

ServiceErrors == {"none", "Exception"}

NextMCP ==
    \E tool_call \in ToolCalls, service_error \in ServiceErrors :
        handle_tool_call(tool_call[1], tool_call[2], service_error)

SpecMCP == Init /\ [][NextMCP]_vars

(* ------------------------- SpecService: the five calls of the service *)

ServiceCreateInputs == {[title |-> "t1", description |-> "d1", due_date |-> 1]}

(* Updates that give null for a field, alone or next to a value, and the   *)
(* update that gives nothing.                                              *)
ServiceNullUpdates ==
    {[description |-> NoneStr, due_date |-> NoneDate],
     [title |-> "t2", description |-> NoneStr],
     << >>}

NextService ==
    \/ \E raw \in ServiceCreateInputs : create_todo(raw)
    \/ \E todo_id \in Ids : get_todo(todo_id)
    \/ list_todos(NoFilters, NoSort)
    \/ \E todo_id \in Ids, raw \in ServiceNullUpdates : update_todo(todo_id, raw)
    \/ \E todo_id \in Ids : delete_todo(todo_id)
    \/ Tick

SpecService == Init /\ [][NextService]_vars

(* ------------------------------------ SpecRetry: the provider call alone *)

RetryOutcomes == {Failure, AnotherFailure, NotJson, SuggestionsA, RankedA}

RetryBehaviours == [1..max_retries -> RetryOutcomes]

NextRetry == \E behaviour \in RetryBehaviours : await_call_openai(behaviour)

SpecRetry == Init /\ [][NextRetry]_vars

(* ----------------------- SpecAIRace: two suggestion requests in progress *)

RaceBehaviours ==
    {<<SuggestionsA, Failure, Failure>>,
     <<SuggestionsB, Failure, Failure>>,
     <<Failure, SuggestionsB, Failure>>,
     <<NotJson, Failure, Failure>>,
     <<Failure, Failure, Failure>>}

NextAIRace ==
    \/ \E p \in Clients, request \in SuggestionRequests :
          begin_generate_suggestions(p, request)
    \/ \E p \in Clients, behaviour \in RaceBehaviours :
          resume_generate_suggestions(p, behaviour)

SpecAIRace == Init /\ [][NextAIRace]_vars

(* ------------------------- SpecRace: two todo requests in progress *)

RaceCreateInputs == {[title |-> "t1"]}

RaceUpdates ==
    {[status |-> "completed"],
     [status |-> "pending"]}

(* The todo the concurrent requests are about, and an id no row has. *)
RaceIds == {1, MaxTodos + 1}

NextRace ==
    \/ \E raw \in RaceCreateInputs : create_todo(raw)
    \/ \E p \in Clients, todo_id \in RaceIds, raw \in RaceUpdates :
          begin_update_todo(p, todo_id, raw)
    \/ \E p \in Clients : commit_update_todo(p)
    \/ \E p \in Clients, todo_id \in RaceIds : begin_delete_todo(p, todo_id)
    \/ \E p \in Clients : commit_delete_todo(p)

SpecRace == Init /\ [][NextRace]_vars

(* ------------------------------------- SpecHttp: the todo HTTP endpoints *)

HttpCreateBodies ==
    {[title |-> "t1"],
     [description |-> "d1"]}

HttpUpdateBodies ==
    {[status |-> "completed"],
     << >>,
     [title |-> ""]}

HttpPrioritizationRequests ==
    {[todos |-> <<TodoSummary(1, "Task 1", 1, "high"),
                  TodoSummary(2, "Task 2", NoneDate, "high")>>]}

HttpBehaviours ==
    {<<Failure, Failure, Failure>>,
     <<RankedA, Failure, Failure>>}

NextHttp ==
    \/ \E raw \in HttpCreateBodies, service_error \in ServiceErrors :
          api_create_todo(raw, service_error)
    \/ \E todo_id \in Ids, service_error \in ServiceErrors :
          api_get_todo(todo_id, service_error)
    \/ \E todo_id \in Ids, raw \in HttpUpdateBodies, service_error \in ServiceErrors :
          api_update_todo(todo_id, raw, service_error)
    \/ \E todo_id \in Ids, service_error \in ServiceErrors :
          api_delete_todo(todo_id, service_error)
    \/ \E request \in HttpPrioritizationRequests, behaviour \in HttpBehaviours :
          api_prioritize_todos(request, behaviour)

SpecHttp == Init /\ [][NextHttp]_vars

(* ================================================================ claims *)

(* Whether the table st holds a row with identifier todo_id that is not    *)
(* soft-deleted.                                                           *)
IsLiveId(st, todo_id) ==
    \E i \in 1..Len(st) : st[i].id = todo_id /\ st[i].is_deleted = FALSE

TheLiveRow(st, todo_id) ==
    CHOOSE i \in 1..Len(st) : st[i].id = todo_id /\ st[i].is_deleted = FALSE

C2Filters ==
    {NoFilters,
     TodoFilters("pending", NoneStr, NoneTags),
     TodoFilters("completed", NoneStr, NoneTags)}

C2Sorts == {NoSort, [sort_by |-> "created_at", sort_order |-> "desc"]}

(* C2: in every reachable state a row whose deletion flag is set is not    *)
(* found by get_by_id or get_todo, is in no list_all result, and is not    *)
(* counted by count_total; and a successful delete leaves its row in the   *)
(* table with the flag set.                                                *)
C2_DeletedIsHidden ==
    /\ \A i \in 1..Len(store) :
          store[i].is_deleted =>
            /\ get_by_id(store, store[i].id) = 0
            /\ \A filters \in C2Filters, sort \in C2Sorts :
                  \A todos \in list_all(store, filters, sort) :
                     \A k \in DOMAIN todos : todos[k].id # store[i].id
    /\ \A filters \in C2Filters :
          count_total(store, filters) <=
             Cardinality({i \in 1..Len(store) : store[i].is_deleted = FALSE})
    /\ count_total(store, NoFilters) =
          Cardinality({i \in 1..Len(store) : store[i].is_deleted = FALSE})
    /\ (result.op = "get_todo" /\ result.raised = "none") => IsLiveId(store, result.id)
    /\ (result.op = "get_todo" /\ ~IsLiveId(store, result.id)) =>
          result.raised = "TodoNotFoundError"
    /\ (result.op = "delete_todo" /\ result.success) =>
          /\ result.row \in 1..Len(store)
          /\ store[result.row].id = result.id
          /\ store[result.row].is_deleted = TRUE

(* get_todo of a soft-deleted todo has raised, while another todo is live. *)
C2_Witness ==
    /\ result.op = "get_todo"
    /\ result.raised = "TodoNotFoundError"
    /\ \E i \in 1..Len(store) : store[i].id = result.id /\ store[i].is_deleted
    /\ \E i \in 1..Len(store) : store[i].is_deleted = FALSE

(* The step condition of C3: a delete_todo of an identifier that has no    *)
(* live row (already deleted, or never created) returns False from the repository, raises    *)
(* TodoNotFoundError and leaves the table unchanged; a delete of a live    *)
(* row succeeds; and a deletion flag once set is never cleared, so a todo  *)
(* is deleted successfully at most once.                                   *)
C3_Step ==
    /\ \A i \in 1..Len(store) : store[i].is_deleted => store'[i].is_deleted
    /\ (result'.op = "delete_todo" /\ now' = now) =>
          IF IsLiveId(store, result'.id)
          THEN /\ result'.success = TRUE
               /\ result'.raised = "none"
               /\ ~IsLiveId(store', result'.id)
          ELSE /\ result'.success = FALSE
               /\ result'.raised = "TodoNotFoundError"
               /\ store' = store

(* C3, as a property of every step: deleting a todo that is already        *)
(* deleted or never existed reports not found and changes nothing; only    *)
(* the first delete of a todo succeeds.                                    *)
C3_DeleteTwiceNotFound == [][C3_Step]_vars

(* A delete of an already deleted todo was refused, and the row still      *)
(* carries the timestamp of its deletion, which lies in the past.          *)
C3_Witness ==
    /\ result.op = "delete_todo"
    /\ result.success = FALSE
    /\ \E i \in 1..Len(store) :
          /\ store[i].id = result.id
          /\ store[i].is_deleted
          /\ store[i].modified_at < now

(* The step condition of C4: update_todo with no field set leaves the      *)
(* table unchanged (so the modification timestamp too) and returns the    *)
(* current entity; for an id with no live row it raises                    *)
(* TodoNotFoundError.                                                      *)
C4_Step ==
    (result'.op = "update_todo" /\ DOMAIN result'.data = {} /\ now' = now) =>
        /\ store' = store
        /\ IF IsLiveId(store, result'.id)
           THEN /\ result'.raised = "none"
                /\ result'.val = to_response(store[TheLiveRow(store, result'.id)])
           ELSE result'.raised = "TodoNotFoundError"

(* C4, as a property of every step: an update_todo with zero fields set    *)
(* changes nothing and returns the current entity, or raises               *)
(* TodoNotFoundError.                                                      *)
C4_EmptyUpdateUnchanged == [][C4_Step]_vars

(* An empty update has returned an entity last modified before now. *)
C4_Witness ==
    /\ result.op = "update_todo"
    /\ DOMAIN result.data = {}
    /\ result.raised = "none"
    /\ store[result.row].modified_at < now
    /\ result.val.modified_at = store[result.row].modified_at

(* The step condition of C5: no step changes the identifier or the         *)
(* creation timestamp of a row,                                            *)
(* also when the update map names id or created_at, and no row is ever     *)
(* removed; no two rows share an identifier.                               *)
C5_Step ==
    /\ Len(store') >= Len(store)
    /\ \A i \in 1..Len(store) :
          /\ store'[i].id = store[i].id
          /\ store'[i].created_at = store[i].created_at

C5_IdsUnique ==
    \A i, j \in 1..Len(store) : store[i].id = store[j].id => i = j

(* C5: identifiers are pairwise distinct in every state, and no step       *)
(* changes a row's identifier or creation timestamp.                       *)
C5_IdAndCreationFixed == []C5_IdsUnique /\ [][C5_Step]_vars

(* A repository update naming id and created_at has succeeded on one of    *)
(* two rows, and the row still has its own identifier and creation time.   *)
C5_Witness ==
    /\ result.op = "update"
    /\ result.found
    /\ {"id", "created_at"} \subseteq DOMAIN result.data
    /\ store[result.row].id = result.id
    /\ store[result.row].id # result.data.id
    /\ store[result.row].created_at # result.data.created_at
    /\ Len(store) = 2

(* The write in result has succeeded on the row result.row. *)
WriteSucceeded(r) ==
    \/ r.op = "update" /\ r.found
    \/ r.op = "update_todo" /\ r.raised = "none" /\ DOMAIN r.data # {}
    \/ r.op = "delete_todo" /\ r.success

(* The step condition of C6: no step lowers the modification timestamp of  *)
(* a row, and a                                                            *)
(* successful repository update (with fields) or delete leaves the row's   *)
(* modification timestamp equal to the current time, whatever modified_at  *)
(* the update map supplied.                                                *)
C6_Step ==
    /\ \A i \in 1..Len(store) : store'[i].modified_at >= store[i].modified_at
    /\ (now' = now /\ WriteSucceeded(result')) =>
          store'[result'.row].modified_at = now

(* C6, as a property of every step: modification timestamps never         *)
(* decrease and every successful update or delete sets the row's to the    *)
(* current time.                                                           *)
C6_ModifiedRefreshed == [][C6_Step]_vars

(* An update whose map supplied modified_at = 0 succeeded at a later time. *)
C6_Witness ==
    /\ result.op = "update"
    /\ result.found
    /\ "modified_at" \in DOMAIN result.data
    /\ result.data.modified_at < now
    /\ store[result.row].modified_at = now
    /\ store[result.row].created_at < now

(* The step condition of C7: a successful update gives every updatable     *)
(* field present in the map                                                *)
(* the supplied value, and leaves every other field of the row (except the *)
(* modification timestamp) and every other row as they were.               *)
C7_Step ==
    ((result'.op = "update" /\ result'.found)
        \/ (result'.op = "update_todo" /\ result'.raised = "none")) =>
       /\ Len(store') = Len(store)
       /\ \A i \in 1..Len(store) : i # result'.row => store'[i] = store[i]
       /\ \A f \in TodoFields \ {"modified_at"} :
             IF f \in DOMAIN result'.data /\ f \in TodoUpdateFields
             THEN store'[result'.row][f] = result'.data[f]
             ELSE store'[result'.row][f] = store[result'.row][f]

(* C7, as a property of every step: a partial update changes the fields in *)
(* its map and the modification timestamp, and nothing else.               *)
C7_PartialUpdateFrame == [][C7_Step]_vars

(* An update of the status alone has succeeded on a todo created with a    *)
(* priority and tags of its own, beside another todo.                      *)
C7_Witness ==
    /\ result.op = "update_todo"
    /\ result.raised = "none"
    /\ DOMAIN result.data = {"status"}
    /\ store[result.row].status = "in_progress"
    /\ store[result.row].priority = "high"
    /\ store[result.row].tags = <<"x">>
    /\ store[result.row].description = "d1"
    /\ Len(store) = 2

(* The identifiers of the live rows that have the status and the priority  *)
(* the filters name.                                                       *)
ExpectedIds(st, filters) ==
    {st[i].id : i \in {j \in 1..Len(st) :
        /\ st[j].is_deleted = FALSE
        /\ (~IsNone(filters) /\ filters.status # NoneStr) => st[j].status = filters.status
        /\ (~IsNone(filters) /\ filters.priority # NoneStr) =>
              st[j].priority = filters.priority}}

HasNoTagsFilter(filters) == IsNone(filters) \/ filters.tags = NoneTags

(* C8: a list_todos call with a status and/or priority filter (and no tags *)
(* filter) returns exactly the live rows with that status and priority,    *)
(* each once.                                                              *)
C8_FilterExact ==
    (result.op = "list_todos" /\ HasNoTagsFilter(result.filters)) =>
        /\ {result.data[k].id : k \in DOMAIN result.data} = ExpectedIds(store, result.filters)
        /\ Len(result.data) = Cardinality(ExpectedIds(store, result.filters))
        /\ \A k \in DOMAIN result.data :
              /\ (~IsNone(result.filters) /\ result.filters.status # NoneStr) =>
                    result.data[k].status = result.filters.status
              /\ (~IsNone(result.filters) /\ result.filters.priority # NoneStr) =>
                    result.data[k].priority = result.filters.priority

(* A listing filtered by status=completed returned a todo while a live     *)
(* pending todo exists.                                                    *)
C8_Witness ==
    /\ result.op = "list_todos"
    /\ ~IsNone(result.filters)
    /\ result.filters.status = "completed"
    /\ result.filters.tags = NoneTags
    /\ Len(result.data) >= 1
    /\ \E i \in 1..Len(store) : store[i].is_deleted = FALSE /\ store[i].status = "pending"

(* C9: GET /todos with query parameter status=S (priority=P) returns only  *)
(* todos whose status is S (priority is P).                                *)
C9_HttpFilter ==
    result.op = "api_list_todos" =>
        \A k \in DOMAIN result.data :
           /\ "status" \in DOMAIN result.query =>
                 result.data[k].status = result.query.status
           /\ "priority" \in DOMAIN result.query =>
                 result.data[k].priority = result.query.priority

(* C10: list_todos with a tags filter returns every live row that has the  *)
(* status and priority asked for and carries at least one of the tags.     *)
C10_TagsContainsAny ==
    (result.op = "list_todos" /\ ~HasNoTagsFilter(result.filters)) =>
        \A i \in 1..Len(store) :
           (/\ store[i].id \in ExpectedIds(store, result.filters)
            /\ \E k \in 1..Len(result.filters.tags), m \in 1..Len(store[i].tags) :
                  store[i].tags[m] = result.filters.tags[k])
           => \E k \in DOMAIN result.data : result.data[k].id = store[i].id

(* C11: whenever list_todos has returned, its metadata has page 1,         *)
(* page_size equal to the number of items returned and total equal to the  *)
(* number of live rows with the status and priority asked for, the tags    *)
(* filter not applied; so total >= page_size, with equality when no tags   *)
(* filter was given.                                                       *)
C11_ListMetadata ==
    result.op = "list_todos" =>
        /\ result.metadata.page = 1
        /\ result.metadata.page_size = Len(result.data)
        /\ result.metadata.total = Cardinality(ExpectedIds(store, result.filters))
        /\ result.metadata.total >= result.metadata.page_size
        /\ HasNoTagsFilter(result.filters) =>
              result.metadata.total = result.metadata.page_size

(* A listing with a tags filter returned an item, and fewer items than its *)
(* total.                                                                  *)
C11_Witness ==
    /\ result.op = "list_todos"
    /\ ~HasNoTagsFilter(result.filters)
    /\ result.metadata.page_size >= 1
    /\ result.metadata.total > result.metadata.page_size

(* C12: whenever a listing has returned, its rows are in descending order  *)
(* of creation time if no sort was given or the sort names no attribute of *)
(* the entity; with a sort naming an attribute they are in ascending order *)
(* of it for asc and descending otherwise (stated for the identifier and  *)
(* the timestamps).                                                        *)
C12_SortOrder ==
    result.op = "list_todos" =>
        \A a, b \in DOMAIN result.data :
           a < b =>
             IF IsNone(result.sort) \/ result.sort.sort_by \notin TodoFields
             THEN result.data[a].created_at >= result.data[b].created_at
             ELSE result.sort.sort_by \in {"id", "created_at", "modified_at"} =>
                    IF result.sort.sort_order = "asc"
                    THEN result.data[a][result.sort.sort_by]
                            <= result.data[b][result.sort.sort_by]
                    ELSE result.data[a][result.sort.sort_by]
                            >= result.data[b][result.sort.sort_by]

(* C13: whenever a listing sorted by priority ascending has returned,      *)
(* every low-priority todo in it comes before every high-priority todo.    *)
C13_PriorityAscending ==
    (/\ result.op = "list_todos"
     /\ ~IsNone(result.sort)
     /\ result.sort.sort_by = "priority"
     /\ result.sort.sort_order = "asc") =>
        \A a, b \in DOMAIN result.data :
           (result.data[a].priority = "low" /\ result.data[b].priority = "high") => a < b

AIOps == {"generate_suggestions", "prioritize_todos", "breakdown_task"}

(* The provider replies that are JSON of the shape the operation expects. *)
RepliesFor(op) ==
    CASE op = "generate_suggestions" -> {SuggestionsA, SuggestionsB}
      [] op = "prioritize_todos" -> {RankedA}
      [] op = "breakdown_task" -> {SubtasksA}

(* The number of the first provider call that returns, 0 if all raise. *)
FirstReply(behaviour) ==
    IF \A a \in 1..max_retries : behaviour[a] = Failure
    THEN 0
    ELSE Min({a \in 1..max_retries : behaviour[a] # Failure})

(* The provider returns, within the attempts, a reply the operation can    *)
(* parse.                                                                  *)
ProviderSucceeds(op, behaviour) ==
    /\ FirstReply(behaviour) # 0
    /\ behaviour[FirstReply(behaviour)] \in RepliesFor(op)

(* C14: whenever generate_suggestions, prioritize_todos or breakdown_task  *)
(* has finished, it has returned a response and raised nothing, whatever   *)
(* the provider did; and when the provider gave no usable reply and the    *)
(* cache had none, the response is the fallback.                           *)
C14_NeverRaises ==
    result.op \in AIOps =>
        /\ result.raised = "none"
        /\ (result.source # "cache" /\ ~ProviderSucceeds(result.op, result.behaviour)) =>
              result.source = "fallback"

(* The rank the prioritization fallback is to order by. *)
C15Rank(priority) ==
    CASE priority = "urgent" -> 0
      [] priority = "high" -> 1
      [] priority = "medium" -> 2
      [] priority = "low" -> 3

(* The todo of the request that has the identifier id. *)
InputOf(todos, id) == todos[CHOOSE i \in DOMAIN todos : todos[i].id = id]

(* C15: whenever prioritize_todos has answered with the fallback, the      *)
(* answer lists every todo of the request exactly once, by priority rank   *)
(* (urgent first) and within a rank by due date ascending with undated     *)
(* todos last, each with its own priority as recommended_priority; for     *)
(* every request, also one that mixes dated and undated todos of one       *)
(* priority.                                                               *)
C15_FallbackOrder ==
    (result.op = "prioritize_todos" /\ result.source = "fallback") =>
        /\ result.raised = "none"
        /\ LET todos == result.request.todos
               out == result.val.ranked_todos
           IN /\ Len(out) = Len(todos)
              /\ \A i \in DOMAIN todos :
                    Cardinality({k \in DOMAIN out : out[k].todo_id = todos[i].id}) = 1
              /\ \A k \in DOMAIN out :
                    out[k].recommended_priority = InputOf(todos, out[k].todo_id).priority
              /\ \A a, b \in DOMAIN out :
                    a < b =>
                      LET x == InputOf(todos, out[a].todo_id)
                          y == InputOf(todos, out[b].todo_id)
                      IN /\ C15Rank(x.priority) <= C15Rank(y.priority)
                         /\ C15Rank(x.priority) = C15Rank(y.priority) =>
                               \/ y.due_date = NoneDate
                               \/ (x.due_date # NoneDate /\ x.due_date <= y.due_date)

(* The step condition of C16: no step removes or changes a cache entry; a  *)
(* request whose key is cached makes no provider call and returns the      *)
(* cached response; and a request that obtained an AI result leaves that   *)
(* result under its key.                                                   *)
C16_Step ==
    /\ \A k \in DOMAIN cache : k \in DOMAIN cache' /\ cache'[k] = cache[k]
    /\ (result'.op \in AIOps /\ result'.cache_key \in DOMAIN cache) =>
          /\ result'.source = "cache"
          /\ result'.calls = 0
          /\ result'.raised = "none"
          /\ model_dump(result'.val) = cache[result'.cache_key]
          /\ cache' = cache
    /\ (result'.op \in AIOps /\ result'.source = "ai") =>
          /\ result'.cache_key \in DOMAIN cache'
          /\ cache'[result'.cache_key] = model_dump(result'.val)

(* In every state the key of a request names its operation and its input,  *)
(* so only an identical request of the same type finds the entry.          *)
C16_KeyOfRequest ==
    result.op \in AIOps =>
        result.cache_key =
            CASE result.op = "generate_suggestions" -> suggest_key(result.request)
              [] result.op = "prioritize_todos" -> prioritize_key(result.request)
              [] result.op = "breakdown_task" -> breakdown_key(result.request)

(* C16: once a request has produced an AI result, every later identical    *)
(* request returns that result with no provider call, whatever happened in *)
(* between; cache entries are never removed or changed.                    *)
C16_CachedForever == []C16_KeyOfRequest /\ [][C16_Step]_vars

(* A suggestion request was answered from the cache with the first answer, *)
(* while the provider would now have given another one, and other entries  *)
(* have been cached in between.                                            *)
C16_Witness ==
    /\ result.op = "generate_suggestions"
    /\ result.source = "cache"
    /\ result.calls = 0
    /\ result.behaviour[1] = SuggestionsB
    /\ model_dump(result.val) = SuggestionsA.data
    /\ Cardinality(DOMAIN cache) >= 3

(* The step condition of C17: a request that ends in the fallback leaves   *)
(* the cache as it was; a request whose key is not cached calls the        *)
(* provider, and if the provider then gives a usable reply the request     *)
(* returns the AI result and caches it.                                    *)
C17_Step ==
    /\ (result'.op \in AIOps /\ result'.source = "fallback") => cache' = cache
    /\ (result'.op \in AIOps /\ result'.cache_key \notin DOMAIN cache) =>
          /\ result'.calls >= 1
          /\ ProviderSucceeds(result'.op, result'.behaviour) =>
                /\ result'.source = "ai"
                /\ result'.raised = "none"
                /\ cache'[result'.cache_key] = model_dump(result'.val)

(* After a request that ended in the fallback its key is not cached. *)
C17_FallbackNotCached ==
    (result.op \in AIOps /\ result.source = "fallback") =>
        result.cache_key \notin DOMAIN cache

C19_ToolCallNeverRaises ==
    result.op = "handle_tool_call" =>
        /\ result.raised = "none"
        /\ result.ret.status \in {"success", "error"}
        /\ result.tool_name \notin {"create_todo", "list_todos", "update_todo", "delete_todo"} =>
              /\ result.ret.status = "error"
              /\ result.ret.error.message = "Unknown tool: " \o result.tool_name

(* The required parameter the tool call lacks, "" if none. *)
MissingRequired(tool_name, params) ==
    CASE tool_name = "create_todo" /\ "title" \notin DOMAIN params -> "title"
      [] tool_name \in {"update_todo", "delete_todo"} /\ "id" \notin DOMAIN params -> "id"
      [] OTHER -> ""

(* The step condition of C20: a tool call that lacks its required          *)
(* parameter returns the error result naming the field, calls no method of *)
(* the todo service and leaves the table as it was.                        *)
C20_Step ==
    (/\ result'.op = "handle_tool_call"
     /\ MissingRequired(result'.tool_name, result'.params) # "") =>
        /\ result'.raised = "none"
        /\ result'.ret = [status |-> "error",
                          error |-> [message |->
                             "Missing required field: "
                                \o MissingRequired(result'.tool_name, result'.params)]]
        /\ result'.service_calls = 0
        /\ store' = store

(* C20, as a property of every step: a tool call without its required      *)
(* parameter yields the missing-field error, no service call and no change *)
(* of the table.                                                           *)
C20_MissingParameter == [][C20_Step]_vars

(* An update_todo call without id was refused while the table holds a      *)
(* pending todo the update would have changed.                             *)
C20_Witness ==
    /\ result.op = "handle_tool_call"
    /\ result.tool_name = "update_todo"
    /\ "id" \notin DOMAIN result.params
    /\ "status" \in DOMAIN result.params
    /\ result.ret.status = "error"
    /\ result.service_calls = 0
    /\ \E i \in 1..Len(store) : store[i].is_deleted = FALSE /\ store[i].status = "pending"


(* The requests on /todos/{todo_id}. *)
ItemOps == {"api_get_todo", "api_update_todo", "api_delete_todo"}

(* The text contains the id: it is the id between two pieces of text. *)
ContainsId(message, todo_id) ==
    \E before \in {"", "Todo with id "}, after \in {"", " not found"} :
        message = before \o ToString(todo_id) \o after

(* The step condition of C21: a well-formed GET, PATCH or DELETE for an id *)
(* that no live row has, answered while the database works, gets 404 with  *)
(* the envelope code NOT_FOUND and a message that contains the id, and the *)
(* table stays as it was.                                                  *)
C21_Step ==
    (/\ result'.op \in ItemOps
     /\ now' = now
     /\ ~IsLiveId(store, result'.id)
     /\ result'.service_error = "none"
     /\ result'.op = "api_update_todo" => DOMAIN TodoUpdateErrors(result'.body) = {}) =>
        /\ result'.response.status_code = 404
        /\ result'.response.content.error.code = "NOT_FOUND"
        /\ ContainsId(result'.response.content.error.message, result'.id)
        /\ store' = store

C22_CreateDefaults ==
    result.op = "create_todo" =>
        LET priority == IF "priority" \in DOMAIN result.raw
                        THEN result.raw.priority ELSE "medium"
            tags == IF "tags" \in DOMAIN result.raw THEN result.raw.tags ELSE <<>>
        IN /\ store[result.id].priority = priority
           /\ store[result.id].tags = tags
           /\ result.val.priority = priority
           /\ result.val.tags = tags

(* A create whose input gave priority high and the tags <<"x">> has        *)
(* returned after one whose input gave neither.                            *)
C22_Witness ==
    /\ result.op = "create_todo"
    /\ "priority" \in DOMAIN result.raw
    /\ result.val.priority = "high"
    /\ result.val.tags = <<"x">>
    /\ \E i \in 1..Len(store) : store[i].priority = "medium" /\ store[i].tags = <<>>


(* What the fallback of the operation gives for the request. *)
FallbackOf(op, request) ==
    CASE op = "generate_suggestions" -> [raised |-> "none", val |-> get_fallback_suggestions]
      [] op = "prioritize_todos" -> get_fallback_prioritization(request.todos)
      [] op = "breakdown_task" -> [raised |-> "none",
                                   val |-> get_fallback_breakdown(request.task)]

(* The first provider call that returns gives a text the operation cannot  *)
(* parse: no JSON, or JSON of another shape.                               *)
ReplyUnparsable(op, behaviour) ==
    /\ FirstReply(behaviour) # 0
    /\ behaviour[FirstReply(behaviour)] \notin RepliesFor(op)

(* The step condition of C23: a request whose key is not cached and whose  *)
(* provider returns an unparsable text makes no provider call after the    *)
(* one that returned the text (exactly one call when that was the first),  *)
(* ends with what the fallback gives, and leaves the cache as it was.      *)
C23_Step ==
    (/\ result'.op \in AIOps
     /\ result'.cache_key \notin DOMAIN cache
     /\ ReplyUnparsable(result'.op, result'.behaviour)) =>
        /\ result'.calls = FirstReply(result'.behaviour)
        /\ FirstReply(result'.behaviour) = 1 => result'.calls = 1
        /\ result'.source = "fallback"
        /\ result'.raised = FallbackOf(result'.op, result'.request).raised
        /\ result'.raised = "none" =>
              result'.val = FallbackOf(result'.op, result'.request).val
        /\ result'.op = "generate_suggestions" =>
              /\ result'.raised = "none"
              /\ result'.val = get_fallback_suggestions
        /\ cache' = cache

FailedAttempts(behaviour) ==
    IF \A a \in 1..max_retries : behaviour[a].raises
    THEN max_retries
    ELSE Min({a \in 1..max_retries : ~behaviour[a].raises}) - 1

(* C24: in _call_openai the wait before attempt 2 is 1 second and the wait *)
(* before attempt 3 is 2 seconds (1 * 2^k after the k-th failed attempt,   *)
(* k = 0, 1); after the third failed attempt there is no wait but an       *)
(* AIServiceError that carries the error of that attempt; and there is no  *)
(* wait after a call that returned.                                        *)
C24_Backoff ==
    result.op = "_call_openai" =>
        LET failed == FailedAttempts(result.behaviour) IN
        /\ result.delays \in {<<>>, <<1>>, <<1, 2>>}
        /\ \A k \in 1..Len(result.delays) : result.delays[k] = 1 * 2^(k - 1)
        /\ IF failed = 3
           THEN /\ result.raised = "AIServiceError"
                /\ result.calls = 3
                /\ result.delays = <<1, 2>>
                /\ result.message = "Failed to call OpenAI after 3 attempts: "
                                       \o result.behaviour[3].error
           ELSE /\ result.raised = "none"
                /\ result.calls = failed + 1
                /\ Len(result.delays) = failed
                /\ result.response_text = result.behaviour[failed + 1]

(* A call failed three times with different errors: it waited 1 and 2 and  *)
(* raised with the error of the third attempt.                             *)
C24_Witness ==
    /\ result.op = "_call_openai"
    /\ result.behaviour = <<Failure, Failure, AnotherFailure>>
    /\ result.raised = "AIServiceError"
    /\ result.delays = <<1, 2>>
    /\ result.message = "Failed to call OpenAI after 3 attempts: Another transient error"


(* Client p has a request in progress that waits for the provider. *)
Awaiting(p) == requests[p].pc = "awaiting"

(* The step condition of C25.  A request that finds its key uncached goes  *)
(* on to call the provider also while another request for the same key is  *)
(* already waiting for the provider; and a request that ends with a parsed *)
(* reply returns the response parsed from its own reply and leaves it      *)
(* under its key in the cache, over whatever an earlier request wrote      *)
(* there, while the response the other client holds stays as it was.       *)
C25_Step ==
    \A p \in Clients :
        /\ (/\ ~Awaiting(p)
            /\ requests'[p] # requests[p]
            /\ requests'[p].cache_key \notin DOMAIN cache) =>
              /\ Awaiting(p)'
              /\ cache' = cache
        /\ (/\ Awaiting(p)
            /\ requests'[p].pc = "done"
            /\ ProviderSucceeds("generate_suggestions", requests'[p].behaviour)) =>
              LET own == requests'[p].behaviour[FirstReply(requests'[p].behaviour)] IN
              /\ requests'[p].source = "ai"
              /\ requests'[p].calls >= 1
              /\ requests'[p].val = SuggestionResponse(own.data)
              /\ cache' = (requests[p].cache_key :> model_dump(requests'[p].val)) @@ cache
              /\ \A q \in Clients \ {p} : requests'[q] = requests[q]

(* C25: two requests of the same type for the same uncached input can both *)
(* pass the cache check and both call the provider; both then write the    *)
(* same key, the later write replacing the earlier, and each returns the   *)
(* response parsed from its own reply.                                     *)
C25_NoSingleFlight == [][C25_Step]_vars

(* Both clients asked for the same description, both called the provider   *)
(* and got different replies: each holds its own response, and the cache   *)
(* holds that of client 2, which returned last.                            *)
C25_Witness ==
    /\ requests[1].pc = "done" /\ requests[2].pc = "done"
    /\ requests[1].cache_key = requests[2].cache_key
    /\ requests[1].source = "ai" /\ requests[2].source = "ai"
    /\ requests[1].calls >= 1 /\ requests[2].calls >= 1
    /\ model_dump(requests[1].val) = SuggestionsA.data
    /\ requests[2].val # requests[1].val
    /\ result.client = 2
    /\ cache[requests[1].cache_key] = model_dump(requests[2].val)


(* Client p commits the request it has in progress in this step. *)
Commits(p, op) ==
    /\ requests[p].pc = "loaded"
    /\ requests[p].op = op
    /\ requests'[p] = Idle

(* The step condition of C26: an update that commits, whatever the other   *)
(* client committed since the update read its row, is not rejected,        *)
(* returns the row as it is after the commit, and leaves in every field it *)
(* wrote the value it wrote, so that after two interleaved updates a field *)
(* written by both holds the value of the one that committed last.         *)
C26_Step ==
    \A p \in Clients :
        Commits(p, "update_todo") =>
            /\ result'.client = p
            /\ result'.raised = "none"
            /\ result'.val = to_response(store'[requests[p].row])
            /\ \A f \in DOMAIN requests[p].data :
                  store'[requests[p].row][f] = requests[p].data[f]

(* C26: when two updates of the same live todo interleave, neither is      *)
(* rejected because of the other, both return the updated entity, and a    *)
(* field written by both holds, after both commits, the value written by   *)
(* the update that committed last.                                         *)
C26_LastCommitWins == [][C26_Step]_vars

(* The successful calls of the step condition of C27: a delete that        *)
(* reports success has set a flag that was not set, so that only one       *)
(* delete of a todo can report success; and an update that succeeds has    *)
(* written to, and returns, a row whose flag is not set.                   *)
C27_Step ==
    \A p \in Clients :
        /\ Commits(p, "delete_todo") =>
              (result'.success => ~store[requests[p].row].is_deleted)
        /\ Commits(p, "update_todo") =>
              (result'.raised = "none" =>
                  /\ ~store[requests[p].row].is_deleted
                  /\ ~result'.entity.is_deleted)

(* C27: of two concurrent deletes of the same existing todo at most one    *)
(* reports success, in every interleaving; and an update that interleaves  *)
(* with a delete of the same todo never succeeds on, or returns, an entity *)
(* whose deletion flag is already set.                                     *)
C27_DeleteOnce == [][C27_Step]_vars


(* Some row of the table has the id and its deletion flag set. *)
IsDeletedId(st, todo_id) ==
    \E i \in 1..Len(st) : st[i].id = todo_id /\ st[i].is_deleted

(* The step condition of C28: a row whose deletion flag is set stays as it *)
(* is, flag and fields, through every call; and an update or delete of its *)
(* id raises TodoNotFoundError and leaves the table as it was.             *)
C28_Step ==
    /\ \A i \in 1..Len(store) : store[i].is_deleted => store'[i] = store[i]
    /\ (/\ result'.op \in {"update_todo", "delete_todo"}
        /\ now' = now
        /\ IsDeletedId(store, result'.id)) =>
          /\ result'.raised = "TodoNotFoundError"
          /\ store' = store

(* C28: soft deletion is permanent through the service: once the deletion  *)
(* flag of a todo is set, no create_todo, get_todo, list_todos,            *)
(* update_todo or delete_todo call clears it or changes a field of the     *)
(* todo, and every later update or delete of the id fails with             *)
(* TodoNotFoundError and leaves the row untouched.                         *)
C28_DeletionPermanent == [][C28_Step]_vars

(* An update that gives a new title was refused, at a later time, for a    *)
(* todo deleted earlier, whose row still has the title and the             *)
(* modification time of the deletion.                                      *)
C28_Witness ==
    /\ result.op = "update_todo"
    /\ "title" \in DOMAIN result.data
    /\ result.raised = "TodoNotFoundError"
    /\ IsDeletedId(store, result.id)
    /\ \E i \in 1..Len(store) :
          /\ store[i].id = result.id
          /\ store[i].title = "t1"
          /\ store[i].modified_at < now

(* The fields the update input gives a value other than null for. *)
GivenFields(raw) == {f \in DOMAIN raw : raw[f] # NoneOf(f)}

(* The step condition of C30: update_todo hands the repository only the    *)
(* fields given with a value other than null; an update that gives no such *)
(* field leaves the table as it was and returns the entity as it is, like  *)
(* the update that gives no field; and no update turns a description or a  *)
(* due date that is set into null.                                         *)
C30_Step ==
    (result'.op = "update_todo" /\ now' = now) =>
        /\ result'.data = [f \in GivenFields(result'.raw) |-> result'.raw[f]]
        /\ GivenFields(result'.raw) = {} =>
              /\ store' = store
              /\ IF IsLiveId(store, result'.id)
                 THEN /\ result'.raised = "none"
                      /\ result'.val = to_response(store[TheLiveRow(store, result'.id)])
                 ELSE result'.raised = "TodoNotFoundError"
        /\ \A i \in 1..Len(store) :
              /\ store[i].description # NoneStr => store'[i].description # NoneStr
              /\ store[i].due_date # NoneDate => store'[i].due_date # NoneDate

(* C30: in update_todo a field given as null is treated like a field not   *)
(* given: it is dropped before the repository is called, so no update can  *)
(* reset description or due date to null, and an update whose fields are   *)
(* all null behaves as the update with no field (entity and modification   *)
(* time unchanged).                                                        *)
C30_NullIsAbsent == [][C30_Step]_vars

(* An update that gave null for description and due date returned, at a    *)
(* later time, the entity with both still set and its modification time    *)
(* unchanged.                                                              *)
C30_Witness ==
    /\ result.op = "update_todo"
    /\ DOMAIN result.raw = {"description", "due_date"}
    /\ result.raised = "none"
    /\ result.val.description = "d1"
    /\ result.val.due_date = 1
    /\ result.val.modified_at < now
    /\ store[result.row].modified_at = result.val.modified_at


(* The requests of the HTTP layer. *)
HttpOps ==
    {"api_create_todo", "api_get_todo", "api_update_todo", "api_delete_todo",
     "api_prioritize_todos"}

(* The request body of the last request failed validation. *)
BodyInvalid ==
    \/ result.op = "api_create_todo" /\ DOMAIN TodoCreateErrors(result.body) # {}
    \/ result.op = "api_update_todo" /\ DOMAIN TodoUpdateErrors(result.body) # {}

====
